---- MODULE Spec2Model ----
(***************************************************************************)
(* Tile streaming pipeline of CentralBody (cesium-b5 Scene/CentralBody.js): *)
(* the three throttled stage queues, the tile state machine, the LRU        *)
(* texture cache policy and the per-frame traversal.                        *)
(*                                                                          *)
(* A tile is identified by its position in the quad-tree: the root is 0 and *)
(* the four children of tile t are 4t+1 .. 4t+4.  Time is a logical clock   *)
(* (what new JulianDate() reads); one call of update reads one clock value. *)
(***************************************************************************)
EXTENDS Integers, Sequences, FiniteSets, TLC

VARIABLES
    tiles,           \* the tile tree: tile id -> tile fields (created tiles only)
    imageQueue,      \* this._imageQueue
    reprojectQueue,  \* this._reprojectQueue
    textureQueue,    \* this._textureQueue
    renderQueue,     \* this._renderQueue, entries <<tree generation, tile id>>
    cache,           \* keys of this._textureCache._cache, in insertion order
    cacheCount,      \* TileTextureCachePolicy._count
    cacheLimit,      \* TileTextureCachePolicy._limit
    tileFailCount,   \* this._tileFailCount
    lastFailedTime,  \* this._lastFailedTime
    dayTileProvider, \* this.dayTileProvider (public, set by the host)
    provider,        \* this._dayTileProvider (the one update works with)
    treeGen,         \* number of tile trees built so far
    orphans,         \* image requests in flight for tiles of a torn down tree
    now,             \* the clock
    exception,       \* this._exception
    overlaySource,   \* this.nightImageSource, specularMapSource, ... (public)
    privOverlaySource, \* this._nightImageSource, ... (the ones update loaded)
    overlayImages,   \* overlay images whose load is in flight
    overlayTextures, \* this._nightTexture, ... that exist
    frame,           \* parity of the frames the host's loop has counted
    log,             \* what the last operation did (observation only)
    earth,           \* the quad-tree of src/earth/tile/tile.js and its last call
    bing,            \* the last quadkey conversion of BingMapsTileProvider
    gpu              \* the texture pool, the textures and the last call of the
                     \* cache's fetch and remove functions

\* the state of the parts that stand apart from the central body
apartVars == <<earth, bing, gpu>>

\* the state of the central body
bodyVars == <<tiles, imageQueue, reprojectQueue, textureQueue, renderQueue, cache,
              cacheCount, cacheLimit, tileFailCount, lastFailedTime, dayTileProvider,
              provider, treeGen, orphans, now, exception, overlaySource,
              privOverlaySource, overlayImages, overlayTextures, frame, log>>

vars == <<bodyVars, apartVars>>

overlayVars == <<exception, overlaySource, privOverlaySource, overlayImages,
                 overlayTextures>>

-----------------------------------------------------------------------------
(* Bounds of the model *)

MaxTime == 1              \* the clock stops here
MaxCacheTime == 2         \* the clock of the cache alone stops here
MaxFailures == 2          \* the global failure counter stops here
MaxPending == 1           \* image requests in flight per tile
MaxOrphans == 1           \* requests left in flight by a torn down tree
MaxCacheLimit == 2        \* largest cache capacity tried on the cache alone
MaxOverlays == 2          \* overlays the host gives a source to

\* Tunables of CentralBody, scaled down so that they bind in a small tree
\* (the constructor sets 15, 10, 10 and 30.0 seconds).
ImageThrottleLimit == 3       \* this._imageThrottleLimit
ReprojectThrottleLimit == 2   \* this._reprojectThrottleLimit
TextureThrottleLimit == 1     \* this._textureThrottleLimit
FailedTileRetryTime == 1      \* this.failedTileRetryTime, in clock ticks

-----------------------------------------------------------------------------
(* Program constants *)

Undefined == -1               \* JavaScript undefined, for numbers and times
TextureCacheLimit == 512      \* this._textureCacheLimit
perTileMaxFailCount == 3
maxTileFailCount == 30
privMaxTileFailCount == Undefined  \* this._maxTileFailCount: read, never assigned
ProtectedZoom == 2            \* eviction needs key.zoom > 2

READY == "READY"
IMAGE_LOADING == "IMAGE_LOADING"
IMAGE_LOADED == "IMAGE_LOADED"
IMAGE_FAILED == "IMAGE_FAILED"
IMAGE_INVALID == "IMAGE_INVALID"
REPROJECTING == "REPROJECTING"
REPROJECTED == "REPROJECTED"
TEXTURE_LOADING == "TEXTURE_LOADING"
TEXTURE_LOADED == "TEXTURE_LOADED"

TileState == {READY, IMAGE_LOADING, IMAGE_LOADED, IMAGE_FAILED, IMAGE_INVALID,
              REPROJECTING, REPROJECTED, TEXTURE_LOADING, TEXTURE_LOADED}

\* Imagery providers: the fields the pipeline reads.
NoProvider == [name |-> "none", zoomMin |-> 0, zoomMax |-> 0]
ProviderA == [name |-> "A", zoomMin |-> 0, zoomMax |-> 1]
ProviderB == [name |-> "B", zoomMin |-> 0, zoomMax |-> 0]
\* the providers the host installs, in this order
ProviderOrder == <<ProviderA, ProviderB>>

\* a provider whose imagery starts at zoom 2
ProviderC == [name |-> "C", zoomMin |-> 2, zoomMax |-> 2]

\* the overlays of the globe: night image, specular map, clouds map, bump map;
\* the source of an overlay is named after it
Overlays == {"night", "specular", "clouds", "bump"}

\* undefined, where a string is expected: a source, an error message
NoSource == "undefined"

-----------------------------------------------------------------------------
(* The quad-tree *)

Root == 0
Parent(t) == (t - 1) \div 4
ChildrenOf(t) == <<4 * t + 1, 4 * t + 2, 4 * t + 3, 4 * t + 4>>

RECURSIVE Zoom(_)
Zoom(t) == IF t = Root THEN 0 ELSE 1 + Zoom(Parent(t))

RECURSIVE SelfAndAncestors(_)
SelfAndAncestors(t) ==
    IF t = Root THEN {Root} ELSE {t} \cup SelfAndAncestors(Parent(t))

NewTile == [state |-> READY, image |-> FALSE, texture |-> FALSE,
            failCount |-> 0, lastHit |-> Undefined, pending |-> 0]

\* JavaScript a > b and a < b on numbers that may be undefined (NaN compares false).
JsGreater(a, b) == a # Undefined /\ b # Undefined /\ a > b
JsLess(a, b) == a # Undefined /\ b # Undefined /\ a < b

Contains(q, t) == \E i \in 1..Len(q) : q[i] = t
Min(a, b) == IF a < b THEN a ELSE b
SeqToSet(q) == {q[i] : i \in 1..Len(q)}

-----------------------------------------------------------------------------
(* The camera: what _cull and refine answer for each tile during one update *)

\* The camera looks away, at the whole globe, or closely at the quadrant of
\* tile 1; the other three quadrants stay out of sight.
Views ==
    { [visible |-> {}, refine |-> {}],
      [visible |-> {0}, refine |-> {}],
      [visible |-> {0, 1}, refine |-> {0}] }

\* The camera of the stage runs: it looks away or closely at all four
\* quadrants.
StageViews ==
    { [visible |-> {}, refine |-> {}],
      [visible |-> 0..4, refine |-> {0}] }

\* The camera of the round trip: the whole globe stays in sight, from far or
\* from close.
FarView == [visible |-> 0..4, refine |-> {}]
CloseView == [visible |-> 0..4, refine |-> {0}]
OpenViews == {FarView, CloseView}

Cull(view, t) == t \notin view.visible

pixelError2D == 2             \* this.pixelError2D

\* a test that refines at the threshold already, to show that the comparison
\* is strict
Refine2DAtThreshold(texelSize, pixelSize, pixelError) ==
    LET texturePixelError == IF pixelError > 0 THEN pixelError ELSE 1
    IN texelSize >= pixelSize * texturePixelError

\* _refine2D, after its tests of the provider: the texel of the tile is larger
\* on screen than pixelError pixels
Refine2D(texelSize, pixelSize, pixelError) ==
    LET texturePixelError == IF pixelError > 0 THEN pixelError ELSE 1
    IN texelSize > pixelSize * texturePixelError

Refine(p, view, t) ==
    IF p = NoProvider THEN FALSE
    ELSE IF Zoom(t) < p.zoomMin THEN TRUE
    ELSE t \in view.refine

-----------------------------------------------------------------------------
(* The working state of one operation: the program's fields as a record *)

\* log: the operation and the tile of a callback; carried from one operation
\* to the next, the tiles that were out of sight with a request in flight at
\* the last update, the failed tiles whose retry is queued or in flight, and
\* for an update the queue lengths before
\* the drains, the tiles each drain dequeued, the evictions, the tiles
\* _processTile retried or refused to retry, and whether it raised.  events
\* lists, in the order of execution, what the operation did to single tiles:
\* a drain dequeued the tile (image, reproject, texture), _processTile put it
\* into a queue (prefetch, traverse), the cache evicted it (evict), a callback
\* of its request ran (onload, onerror, oninvalid); from and to are the states
\* of the tile before and after.  raised is the message of the RuntimeError an
\* update threw, skipped says that update returned at once on an empty canvas,
\* thrower is the step of update that raised: the rethrow of an overlay error
\* (overlay), a drain (image, texture) or the traversal (traverse).
NoLog == [abandoned |-> {}, retrying |-> {}]

\* trace: what a traced update or render saw and did, for the runs that watch
\* the traversal and the draw calls: the camera of the update, the tiles the
\* traversal popped that passed the cull test (visited), those among them
\* whose children it looked at (refined), the tiles it handed to _processTile
\* (processed), and the render queue entries in the order render drew them.
\* An operation that is not traced leaves NoTrace.
NoView == [visible |-> {}, refine |-> {}]
NoTrace == [view |-> NoView, visited |-> {}, refined |-> {}, processed |-> {},
            steps |-> <<>>, queued |-> <<>>, drawn |-> <<>>]

LogOf(op, t, old) ==
    [op |-> op,
     tile |-> t,
     abandoned |-> old.abandoned,
     retrying |-> old.retrying,
     length |-> [image |-> 0, reproject |-> 0, texture |-> 0],
     drained |-> [image |-> 0, reproject |-> 0, texture |-> 0],
     dropped |-> {},
     evicted |-> <<>>,
     retried |-> {},
     refused |-> {},
     threw |-> FALSE,
     thrower |-> "none",
     raised |-> NoSource,
     skipped |-> FALSE,
     events |-> <<>>,
     trace |-> NoTrace]

Event(kind, t, from, to) == [kind |-> kind, tile |-> t, from |-> from, to |-> to]

Note(S, kind, t, from) ==
    [S EXCEPT !.log.events = Append(@, Event(kind, t, from, S.tiles[t].state))]

Visit(S, t) == [S EXCEPT !.log.trace.visited = @ \cup {t}]
Refining(S, t) == [S EXCEPT !.log.trace.refined = @ \cup {t}]
\* one iteration of a drain, watched: the tile before and after it, and
\* whether the cache and the failure counters of the body are as they were
Watch(S, kind, t, old) ==
    [S EXCEPT !.log.trace.steps =
        Append(@, [kind |-> kind, tile |-> t, before |-> old.tiles[t],
                   after |-> S.tiles[t],
                   same |-> /\ S.cache = old.cache
                            /\ S.cacheCount = old.cacheCount
                            /\ S.tileFailCount = old.tileFailCount
                            /\ \A u \in DOMAIN old.tiles :
                                   u # t => S.tiles[u] = old.tiles[u]])]

Handing(S, t) == [S EXCEPT !.log.trace.processed = @ \cup {t}]

Current(op) ==
    [tiles |-> tiles, imageQueue |-> imageQueue, reprojectQueue |-> reprojectQueue,
     textureQueue |-> textureQueue, renderQueue |-> renderQueue, cache |-> cache,
     cacheCount |-> cacheCount, cacheLimit |-> cacheLimit,
     tileFailCount |-> tileFailCount,
     provider |-> provider, treeGen |-> treeGen, orphans |-> orphans,
     exception |-> exception, privOverlaySource |-> privOverlaySource,
     overlayImages |-> overlayImages,
     log |-> LogOf(op, Undefined, log)]

Commit(S) ==
    /\ tiles' = S.tiles
    /\ imageQueue' = S.imageQueue
    /\ reprojectQueue' = S.reprojectQueue
    /\ textureQueue' = S.textureQueue
    /\ renderQueue' = S.renderQueue
    /\ cache' = S.cache
    /\ cacheCount' = S.cacheCount
    /\ cacheLimit' = S.cacheLimit
    /\ tileFailCount' = S.tileFailCount
    /\ provider' = S.provider
    /\ treeGen' = S.treeGen
    /\ orphans' = S.orphans
    /\ exception' = S.exception
    /\ privOverlaySource' = S.privOverlaySource
    /\ overlayImages' = S.overlayImages
    /\ log' = S.log

-----------------------------------------------------------------------------
(* TileTextureCachePolicy and the cache it serves *)

\* a hit that touches the key alone, to show what the walk up the parents is
\* needed for
HitKeyOnly(S, t) == [S EXCEPT !.tiles[t].lastHit = now]

\* hit: the key and all its ancestors get the current time
Hit(S, t) ==
    LET old == S.tiles
    IN [S EXCEPT !.tiles =
           [u \in DOMAIN old |->
               IF u \in SelfAndAncestors(t)
               THEN [old[u] EXCEPT !.lastHit = now]
               ELSE old[u]]]

\* a scan that does not look at the zoom, to show what the test is needed for
RECURSIVE ScanAnyZoom(_, _, _, _, _)
ScanAnyZoom(S, keys, i, lruTime, index) ==
    IF i > Len(keys) THEN index
    ELSE IF S.tiles[keys[i]].lastHit < lruTime
         THEN ScanAnyZoom(S, keys, i + 1, S.tiles[keys[i]].lastHit, keys[i])
         ELSE ScanAnyZoom(S, keys, i + 1, lruTime, index)

\* the scan of miss: the strictly oldest entry hit before lruTime with zoom > 2
RECURSIVE Scan(_, _, _, _, _)
Scan(S, keys, i, lruTime, index) ==
    IF i > Len(keys) THEN index
    ELSE IF S.tiles[keys[i]].lastHit < lruTime /\ Zoom(keys[i]) > ProtectedZoom
         THEN Scan(S, keys, i + 1, S.tiles[keys[i]].lastHit, keys[i])
         ELSE Scan(S, keys, i + 1, lruTime, index)

\* a removeFunc that releases the texture only, to show what the reset is
\* needed for
RemoveTextureOnly(S, t) == [S EXCEPT !.tiles[t].texture = FALSE]

\* removeFunc of _createTextureCache: the texture goes back to the pool or is
\* destroyed, and the tile starts over
Remove(S, t) ==
    [S EXCEPT !.tiles[t].texture = FALSE, !.tiles[t].state = READY]

Without(q, t) == SelectSeq(q, LAMBDA k : k # t)

Observe(S, t) ==
    [tile |-> t, state |-> S.tiles[t].state, texture |-> S.tiles[t].texture,
     resident |-> Contains(S.cache, t)]

\* the eviction branch of miss; with no victim, element is undefined and
\* element.key raises a TypeError
Evict(S, t, index) ==
    IF index = Undefined
    THEN [S EXCEPT !.log.threw = TRUE, !.log.thrower = "texture"]
    ELSE LET S1 == Remove(S, index)
             S2 == [S1 EXCEPT !.cache = Without(@, index)]
             S3 == [S2 EXCEPT !.log.evicted = Append(@, Observe(S2, index))]
         IN Note([S3 EXCEPT !.cache = Append(@, t)], "evict", index,
                 S.tiles[index].state)

\* a miss that inserts without looking at the limit, to show what the
\* eviction is needed for
MissNoLimit(S, t) ==
    LET S1 == Hit(S, t)
    IN [S1 EXCEPT !.cacheCount = @ + 1, !.cache = Append(@, t)]

Miss(S, t) ==
    LET lruTime == now
        S1 == Hit(S, t)
    IN IF S1.cacheCount < S1.cacheLimit
       THEN [S1 EXCEPT !.cacheCount = @ + 1, !.cache = Append(@, t)]
       ELSE Evict(S1, t, Scan(S1, S1.cache, 1, lruTime, Undefined))

\* Cache.find
Find(S, t) == IF Contains(S.cache, t) THEN Hit(S, t) ELSE Miss(S, t)

-----------------------------------------------------------------------------
(* Tile pipeline of CentralBody *)

\* Tile.getChildren: the four children are created on the first call
GetChildren(S, t) ==
    LET kids == SeqToSet(ChildrenOf(t))
        old == S.tiles
    IN IF kids \subseteq DOMAIN old THEN S
       ELSE [S EXCEPT !.tiles =
                [u \in DOMAIN old \cup kids |->
                    IF u \in DOMAIN old THEN old[u] ELSE NewTile]]

\* maxTimePassed of _processTile
MaxTimePassed ==
    /\ lastFailedTime # Undefined
    /\ now - lastFailedTime >= FailedTileRetryTime

\* retry of _processTile
Retry(S, t) ==
    LET maxFailed == JsGreater(S.tileFailCount, privMaxTileFailCount)
        requestFailed == /\ S.tiles[t].state = IMAGE_FAILED
                         /\ JsLess(S.tiles[t].failCount, privMaxTileFailCount)
    IN MaxTimePassed \/ (requestFailed /\ ~maxFailed)

\* the guard of _processTile: a queued tile is left alone
Queued(S, t) ==
    \/ Contains(S.imageQueue, t)
    \/ Contains(S.reprojectQueue, t)
    \/ Contains(S.textureQueue, t)

\* a retry that leaves the counters alone, to show what the reset is needed for
RetryTileNoReset(S, t) ==
    [S EXCEPT !.imageQueue = Append(@, t),
              !.tiles[t].state = IMAGE_LOADING,
              !.log.retried = @ \cup {t},
              !.log.retrying = IF S.tiles[t].state = IMAGE_FAILED
                               THEN @ \cup {t} ELSE @]

\* the retry branch of _processTile
RetryTile(S, t) ==
    LET S1 == IF MaxTimePassed
              THEN [S EXCEPT !.tiles[t].failCount = 0, !.tileFailCount = 0]
              ELSE S
    IN [S1 EXCEPT !.imageQueue = Append(@, t),
                  !.tiles[t].state = IMAGE_LOADING,
                  !.log.retried = @ \cup {t},
                  !.log.retrying = IF S.tiles[t].state = IMAGE_FAILED
                                   THEN @ \cup {t} ELSE @]

\* the branches of _processTile for a tile that is in no stage queue
Advance(S, t) ==
    IF S.tiles[t].state = READY
    THEN [S EXCEPT !.imageQueue = Append(@, t), !.tiles[t].state = IMAGE_LOADING]
    ELSE IF S.tiles[t].state = IMAGE_LOADED
    THEN [S EXCEPT !.reprojectQueue = Append(@, t), !.tiles[t].state = REPROJECTING]
    ELSE IF S.tiles[t].state = REPROJECTED
    THEN [S EXCEPT !.textureQueue = Append(@, t), !.tiles[t].state = TEXTURE_LOADING]
    ELSE IF Retry(S, t)
    THEN RetryTile(S, t)
    ELSE IF S.tiles[t].state = IMAGE_INVALID /\ S.tiles[t].image
    THEN [S EXCEPT !.tiles[t].image = FALSE, !.log.refused = @ \cup {t}]
    ELSE [S EXCEPT !.log.refused = @ \cup {t}]

\* _processTile with its guard left out, to show what the guard is needed for
ProcessTileUnguarded(S, t) == Advance(S, t)

ProcessTile(S, t) ==
    IF Queued(S, t) THEN S
    ELSE LET S1 == Advance(S, t)
         IN IF Queued(S1, t) THEN Note(S1, "traverse", t, S.tiles[t].state)
            ELSE S1

\* a drain that empties its queue, to show what the limit is needed for
DrainAll(len, limit) == len

\* the loop bound of the three drains: i < len && i < limit
ThrottleCount(len, limit) == Min(len, limit)

\* loadTileImage raises a DeveloperError outside [zoomMin, zoomMax]
LoadThrows(p, t) == Zoom(t) < p.zoomMin \/ Zoom(t) > p.zoomMax

\* one iteration of _throttleImages on a tile that is not culled
FetchImage(S, t) ==
    IF S.provider.zoomMin # 0 /\ t = Root
    THEN [S EXCEPT !.tiles[t].image = TRUE, !.tiles[t].state = IMAGE_LOADED]
    ELSE IF LoadThrows(S.provider, t)
    THEN [S EXCEPT !.log.threw = TRUE, !.log.thrower = "image"]
    ELSE [S EXCEPT !.tiles[t].image = TRUE, !.tiles[t].pending = @ + 1]

RECURSIVE ThrottleImagesLoop(_, _, _)
ThrottleImagesLoop(S, view, n) ==
    IF n = 0 \/ S.log.threw THEN S
    ELSE LET t == Head(S.imageQueue)
             S1 == [S EXCEPT !.imageQueue = Tail(@), !.log.drained.image = @ + 1]
         IN ThrottleImagesLoop(
                Watch(Note(IF Cull(view, t)
                           THEN [S1 EXCEPT !.tiles[t].state = READY,
                                           !.log.dropped = @ \cup {t},
                                           !.log.retrying = @ \ {t}]
                           ELSE FetchImage(S1, t),
                           "image", t, S.tiles[t].state),
                      "image", t, S),
                view, n - 1)

ThrottleImages(S, view) ==
    ThrottleImagesLoop([S EXCEPT !.log.length.image = Len(S.imageQueue)], view,
                       ThrottleCount(Len(S.imageQueue), ImageThrottleLimit))

\* a drain that resets a culled tile and keeps its image, to show what
\* clearing the image is needed for
RECURSIVE ThrottleReprojectionKeepImage(_, _, _)
ThrottleReprojectionKeepImage(S, view, n) ==
    IF n = 0 \/ S.log.threw THEN S
    ELSE LET t == Head(S.reprojectQueue)
             S1 == [S EXCEPT !.reprojectQueue = Tail(@),
                             !.log.drained.reproject = @ + 1]
         IN ThrottleReprojectionKeepImage(
                Watch(Note(IF Cull(view, t)
                           THEN [S1 EXCEPT !.tiles[t].state = READY,
                                           !.log.dropped = @ \cup {t}]
                           ELSE [S1 EXCEPT !.tiles[t].state = REPROJECTED],
                           "reproject", t, S.tiles[t].state),
                      "reproject", t, S),
                view, n - 1)

\* the loop of _throttleReprojection
RECURSIVE ThrottleReprojectionLoop(_, _, _)
ThrottleReprojectionLoop(S, view, n) ==
    IF n = 0 \/ S.log.threw THEN S
    ELSE LET t == Head(S.reprojectQueue)
             S1 == [S EXCEPT !.reprojectQueue = Tail(@),
                             !.log.drained.reproject = @ + 1]
         IN ThrottleReprojectionLoop(
                Watch(Note(IF Cull(view, t)
                           THEN [S1 EXCEPT !.tiles[t].image = FALSE,
                                           !.tiles[t].state = READY,
                                           !.log.dropped = @ \cup {t}]
                           ELSE [S1 EXCEPT !.tiles[t].state = REPROJECTED],
                           "reproject", t, S.tiles[t].state),
                      "reproject", t, S),
                view, n - 1)

ThrottleReprojection(S, view) ==
    ThrottleReprojectionLoop(
        [S EXCEPT !.log.length.reproject = Len(S.reprojectQueue)], view,
        ThrottleCount(Len(S.reprojectQueue), ReprojectThrottleLimit))

\* an upload that keeps the image, to show what clearing it is needed for
UploadKeepImage(S, t) ==
    LET S1 == Find(S, t)
    IN IF S1.log.threw THEN S1
       ELSE [S1 EXCEPT !.tiles[t].texture = TRUE,
                       !.tiles[t].state = TEXTURE_LOADED]

\* one iteration of _throttleTextures on a tile that is not culled and has an image
Upload(S, t) ==
    LET S1 == Find(S, t)
    IN IF S1.log.threw THEN S1
       ELSE [S1 EXCEPT !.tiles[t].texture = TRUE,
                       !.tiles[t].state = TEXTURE_LOADED,
                       !.tiles[t].image = FALSE]

RECURSIVE ThrottleTexturesLoop(_, _, _)
ThrottleTexturesLoop(S, view, n) ==
    IF n = 0 \/ S.log.threw THEN S
    ELSE LET t == Head(S.textureQueue)
             S1 == [S EXCEPT !.textureQueue = Tail(@), !.log.drained.texture = @ + 1]
         IN ThrottleTexturesLoop(
                Watch(Note(IF Cull(view, t) \/ ~S1.tiles[t].image
                           THEN [S1 EXCEPT !.tiles[t].image = FALSE,
                                           !.tiles[t].state = READY,
                                           !.log.dropped = @ \cup {t}]
                           ELSE Upload(S1, t),
                           "texture", t, S.tiles[t].state),
                      "texture", t, S),
                view, n - 1)

ThrottleTextures(S, view) ==
    ThrottleTexturesLoop([S EXCEPT !.log.length.texture = Len(S.textureQueue)], view,
                         ThrottleCount(Len(S.textureQueue), TextureThrottleLimit))

\* _enqueueTile: a tile already in the render queue is not added again
EnqueueTile(S, t) ==
    IF Contains(S.renderQueue, <<S.treeGen, t>>) THEN S
    ELSE [S EXCEPT !.renderQueue = Append(@, <<S.treeGen, t>>)]

\* the condition of the traversal for a tile that can be drawn
Loaded(S, t) == S.tiles[t].state = TEXTURE_LOADED /\ S.tiles[t].texture

\* a loop that leaves the parent out of the render queue, to show what the
\* placeholder is needed for
RECURSIVE VisitChildrenNoPlaceholder(_, _, _, _)
VisitChildrenNoPlaceholder(S, stack, t, i) ==
    IF i > 4 THEN [S |-> S, stack |-> stack]
    ELSE LET child == ChildrenOf(t)[i]
         IN IF Loaded(S, child)
            THEN VisitChildrenNoPlaceholder(S, Append(stack, child), t, i + 1)
            ELSE VisitChildrenNoPlaceholder(ProcessTile(Handing(S, child), child),
                                            stack, t, i + 1)

\* the loop over the children of a refined tile
RECURSIVE VisitChildren(_, _, _, _)
VisitChildren(S, stack, t, i) ==
    IF i > 4 THEN [S |-> S, stack |-> stack]
    ELSE LET child == ChildrenOf(t)[i]
         IN IF Loaded(S, child)
            THEN VisitChildren(S, Append(stack, child), t, i + 1)
            ELSE VisitChildren(ProcessTile(Handing(EnqueueTile(S, t), child), child),
                               stack, t, i + 1)

\* the traversal of update, with its explicit stack
RECURSIVE Traverse(_, _, _)
Traverse(S, view, stack) ==
    IF stack = <<>> \/ S.log.threw THEN S
    ELSE LET t == stack[Len(stack)]
             rest == SubSeq(stack, 1, Len(stack) - 1)
         IN IF Cull(view, t) THEN Traverse(S, view, rest)
            ELSE IF S.provider = NoProvider
            THEN [S EXCEPT !.log.threw = TRUE, !.log.thrower = "traverse"]
            ELSE IF ~Loaded(S, t)
            THEN Traverse(ProcessTile(Handing(Visit(S, t), t), t), view, rest)
            ELSE IF Zoom(t) + 1 > S.provider.zoomMax \/ ~Refine(S.provider, view, t)
            THEN Traverse(EnqueueTile(Visit(S, t), t), view, rest)
            ELSE LET r == VisitChildren(GetChildren(Refining(Visit(S, t), t), t),
                                        rest, t, 1)
                 IN Traverse(r.S, view, r.stack)

\* _prefetchImages
PrefetchLimit == 1

Max(a, b) == IF a > b THEN a ELSE b

RECURSIVE Prefetch(_, _, _)
Prefetch(S, limit, stack) ==
    IF stack = <<>> \/ S.log.threw THEN S
    ELSE LET t == stack[Len(stack)]
             rest == SubSeq(stack, 1, Len(stack) - 1)
         IN IF Zoom(t) < limit
            THEN LET S1 == GetChildren(ProcessTile(S, t), t)
                 IN Prefetch(S1, limit, rest \o ChildrenOf(t))
            ELSE IF Zoom(t) = limit
            THEN Prefetch(ProcessTile(S, t), limit, rest)
            ELSE Prefetch(S, limit, rest)

PrefetchImages(S) ==
    LET S1 == Prefetch(S, Max(Min(PrefetchLimit, S.provider.zoomMax),
                              S.provider.zoomMin), <<Root>>)
    IN [S1 EXCEPT !.log.events =
           [i \in DOMAIN @ |-> IF @[i].kind = "traverse"
                               THEN [@[i] EXCEPT !.kind = "prefetch"]
                               ELSE @[i]]]

RECURSIVE SumPending(_, _)
SumPending(f, D) ==
    IF D = {} THEN 0
    ELSE LET t == CHOOSE x \in D : TRUE
         IN f[t].pending + SumPending(f, D \ {t})

\* the provider change of update: queues cleared, the tree and the cache torn
\* down, a new root, prefetch
ChangeProvider(S) ==
    PrefetchImages(
        [S EXCEPT !.provider = dayTileProvider,
                  !.imageQueue = <<>>,
                  !.textureQueue = <<>>,
                  !.reprojectQueue = <<>>,
                  !.orphans = @ + SumPending(S.tiles, DOMAIN S.tiles),
                  !.tiles = [u \in {Root} |-> NewTile],
                  !.treeGen = @ + 1,
                  !.cache = <<>>,
                  !.cacheCount = 0,
                  !.cacheLimit = TextureCacheLimit,
                  !.log.retrying = {}])

\* the tiles out of sight in this update whose image request is in flight
Abandoned(S, view) ==
    {t \in DOMAIN S.tiles : S.tiles[t].pending > 0 /\ Cull(view, t)}

\* a rethrow that leaves the error pending, to show what clearing it is
\* needed for
RaisePendingAgain(S) ==
    [S EXCEPT !.log.threw = TRUE, !.log.thrower = "overlay",
              !.log.raised = S.exception]

\* update throws the error an overlay image left behind and forgets it
RaisePending(S) ==
    [S EXCEPT !.log.threw = TRUE, !.log.thrower = "overlay",
              !.log.raised = S.exception, !.exception = NoSource]

\* the four blocks of update that load an overlay whose source was changed
LoadOverlays(S) ==
    [S EXCEPT !.privOverlaySource = overlaySource,
              !.overlayImages =
                  @ \cup {k \in Overlays : S.privOverlaySource[k] # overlaySource[k]}]

\* an update that walks the tree before it drains the queues, to show what
\* the order is needed for
UpdateResultTraverseFirst(view) ==
    LET S0 == Current("update")
        S1 == IF provider # dayTileProvider THEN ChangeProvider(S0) ELSE S0
        S2 == IF S1.exception # NoSource THEN RaisePending(S1)
              ELSE ThrottleTextures(ThrottleReprojection(
                       ThrottleImages(Traverse(LoadOverlays(S1), view, <<Root>>),
                                      view), view), view)
    IN [S2 EXCEPT !.log.abandoned = Abandoned(S2, view)]

UpdateResult(view) ==
    LET S0 == Current("update")
        S1 == IF provider # dayTileProvider THEN ChangeProvider(S0) ELSE S0
        S2 == IF S1.exception # NoSource THEN RaisePending(S1)
              ELSE Traverse(ThrottleTextures(ThrottleReprojection(
                                ThrottleImages(LoadOverlays(S1), view), view), view),
                            view, <<Root>>)
    IN [S2 EXCEPT !.log.abandoned = Abandoned(S2, view)]

-----------------------------------------------------------------------------
(* The quad-tree of src/earth/tile/tile.js: tiles are objects, named here by
   the path of child indices that leads to them from the root *)

MaxLevel == 33

\* the calls watched are those on the root and those that reach down to the
\* levels from DeepLevel on
DeepLevel == 30
Depths == {1} \cup DeepLevel..MaxLevel

Two30 == 1073741824           \* 2^30

\* x << 1 for a 32-bit integer x: twice x, wrapped into -2^31 .. 2^31 - 1
ShiftLeft1(x) ==
    IF x >= Two30 THEN (((x - Two30) * 2) - Two30) - Two30
    ELSE IF x < -Two30 THEN (((x + Two30) * 2) + Two30) + Two30
    ELSE x * 2

\* new Tile(column, row, level, terrain, layerManager, parent)
Tile(column, row, level, parent) ==
    [column |-> column, row |-> row, level |-> level, parent |-> parent,
     children |-> <<>>]

\* the root of the tree, and the tree before any call
RootPath == <<>>
NoCall == [op |-> "none", tile |-> RootPath, before |-> <<>>, created |-> 0]
EarthInit ==
    [tiles |-> [p \in {RootPath} |-> Tile(0, 0, 0, {})], call |-> NoCall]

\* the four tiles getChildren constructs for the tile at path p; x << 1 is
\* even, so that x << 1 | 1 is one more
NewChild(T, p, i) ==
    Tile(ShiftLeft1(T[p].column) + (IF i \in {2, 4} THEN 1 ELSE 0),
         ShiftLeft1(T[p].row) + (IF i \in {3, 4} THEN 1 ELSE 0),
         T[p].level + 1,
         {p})

\* Tile.getChildren: the tree after the call
getChildren(T, p) ==
    IF Len(T[p].children) = 0
    THEN LET kids == [i \in 1..4 |-> Append(p, i)]
         IN [T EXCEPT ![p].children = kids]
                @@ [q \in {kids[i] : i \in 1..4} |-> NewChild(T, p, q[Len(q)])]
    ELSE T

\* the tiles a judge lets traverse descend into: those of one spine of the
\* tree above a level.  Spine 1 goes by the first child all the way, spine 2
\* by the second child of the root and the first child from there on.
OnSpine(spine, p) ==
    \A i \in DOMAIN p : p[i] = (IF i = 1 THEN spine ELSE 1)
judge(j, T, p) == OnSpine(j.spine, p) /\ T[p].level < j.depth

\* Tile.traverse(judge): the tree after the call
RECURSIVE traverse(_, _, _)
RECURSIVE TraverseChildren(_, _, _, _)
TraverseChildren(T, p, j, i) ==
    IF i > Len(T[p].children) THEN T
    ELSE LET T1 == traverse(T, T[p].children[i], j)
         IN IF DOMAIN T1 = {} THEN T1       \* never: the call is made first
            ELSE TraverseChildren(T1, p, j, i + 1)
traverse(T, p, j) ==
    IF judge(j, T, p) THEN TraverseChildren(getChildren(T, p), p, j, 1)
    ELSE T

-----------------------------------------------------------------------------
(* The quadkeys of BingMapsTileProvider: a quadkey is a string of the
   characters '0' to '3', modelled as the sequence of their digits *)

MaxZoom == 4

RECURSIVE Pow2(_)
Pow2(n) == IF n = 0 THEN 1 ELSE 2 * Pow2(n - 1)

\* (x & mask) !== 0 and x | mask, for a mask of one bit
BitSet(x, mask) == (x \div mask) % 2 = 1
BitOr(x, mask) == IF BitSet(x, mask) THEN x ELSE x + mask

\* BingMapsTileProvider.tileXYToQuadKey: the loop from i down to 1
RECURSIVE tileXYToQuadKey(_, _, _)
tileXYToQuadKey(x, y, i) ==
    IF i > 0
    THEN LET mask == Pow2(i - 1)
             digit == (IF BitSet(x, mask) THEN 1 ELSE 0)
                      + (IF BitSet(y, mask) THEN 2 ELSE 0)
         IN <<digit>> \o tileXYToQuadKey(x, y, i - 1)
    ELSE <<>>

\* quadkey[k] of JavaScript: undefined when k is no index of the string
CharAt(quadkey, k) ==
    IF k # Undefined /\ k + 1 \in DOMAIN quadkey THEN quadkey[k + 1] ELSE Undefined

\* result.lod - i, where result has the properties x, y and zoom: a property
\* that is missing reads as undefined, and undefined - i is no index
LodMinus(result, i) ==
    IF "lod" \in DOMAIN result THEN result.lod - i ELSE Undefined

\* BingMapsTileProvider.quadKeyToTileXY: the loop from i down to 1
RECURSIVE QuadKeyLoop(_, _, _)
QuadKeyLoop(quadkey, result, i) ==
    IF i > 0
    THEN LET mask == Pow2(i - 1)
             c == CharAt(quadkey, LodMinus(result, i))
         IN QuadKeyLoop(quadkey,
                        IF c = 1 THEN [result EXCEPT !.x = BitOr(@, mask)]
                        ELSE IF c = 2 THEN [result EXCEPT !.y = BitOr(@, mask)]
                        ELSE IF c = 3 THEN [result EXCEPT !.x = BitOr(@, mask),
                                                          !.y = BitOr(@, mask)]
                        ELSE result,
                        i - 1)
    ELSE result

quadKeyToTileXY(quadkey) ==
    QuadKeyLoop(quadkey, [x |-> 0, y |-> 0, zoom |-> Len(quadkey)], Len(quadkey))

NoConversion ==
    [op |-> "none", x |-> 0, y |-> 0, zoom |-> 0, quadkey |-> <<>>,
     result |-> [x |-> 0, y |-> 0, zoom |-> 0],
     url |-> FALSE, deferredQueue |-> <<>>, elements |-> <<>>,
     requests |-> <<>>, failures |-> 0]

-----------------------------------------------------------------------------
(* BingMapsTileProvider.loadTileImage: the record of the provider holds
   whether the url template has arrived (url), the elements that wait for it
   (deferredQueue), the elements that _loadImage was called for (elements) and,
   for each call of loadTileImage by _fetchImage, the callbacks of it that were
   invoked (requests).  A callback is the sequence of the requests whose
   function it calls, in the order of the calls. *)

MaxRequests == 2
BingTiles == {1, 2}

\* the element of loadTileImage for request r of a tile
Element(tile, r) ==
    [tile |-> tile, onload |-> <<r>>, onerror |-> <<r>>, oninvalid |-> <<r>>,
     zoomResponse |-> FALSE, validZoom |-> FALSE, loaded |-> FALSE,
     metadata |-> "pending", image |-> "pending", calls |-> <<>>,
     events |-> <<>>]

\* combineFunctions: a function that calls a, then b; what is not a function
\* calls nothing
combineFunctions(a, b) == a \o b

\* findInDeferredQueue: the index of the element of the tile, 0 if none
findInDeferredQueue(deferredQueue, tile) ==
    IF \E i \in DOMAIN deferredQueue : deferredQueue[i].tile = tile
    THEN CHOOSE i \in DOMAIN deferredQueue :
             /\ deferredQueue[i].tile = tile
             /\ \A j \in 1..(i - 1) : deferredQueue[j].tile # tile
    ELSE 0

\* the callbacks that _fetchImage passes for a request: each invocation is
\* kept, and onerror counts a failure of the CentralBody
RECURSIVE Callback(_, _, _)
Callback(B, name, rs) ==
    IF rs = <<>> THEN B
    ELSE Callback([B EXCEPT !.requests[Head(rs)].calls = Append(@, name),
                            !.failures = IF name = "onerror" THEN @ + 1 ELSE @],
                  name, Tail(rs))

\* element.onload(), element.onerror() or element.oninvalid() of element e
Invoke(B, e, name) ==
    Callback([B EXCEPT !.elements[e].calls = Append(@, name)], name,
             B.elements[e][name])

\* a metadata callback that does not look at loaded, to show what the test is
\* needed for
metadataNeverLoads(B, e, kind) ==
    LET B1 == [B EXCEPT !.elements[e].metadata = kind,
                        !.elements[e].events = Append(@, "metadata")]
    IN IF kind = "none" THEN Invoke(B1, e, "onerror")
       ELSE IF kind = "valid"
       THEN [B1 EXCEPT !.elements[e].validZoom = TRUE,
                       !.elements[e].zoomResponse = TRUE]
       ELSE [Invoke(B1, e, "oninvalid") EXCEPT !.elements[e].zoomResponse = TRUE]

\* the jsonp callback of _loadImage for element e: the response has no
\* resource set (none), reports vintageStart and vintageEnd (valid) or does
\* not (invalid)
metadataCallback(B, e, kind) ==
    LET B1 == [B EXCEPT !.elements[e].metadata = kind,
                        !.elements[e].events = Append(@, "metadata")]
    IN IF kind = "none" THEN Invoke(B1, e, "onerror")
       ELSE IF kind = "valid"
       THEN LET B2 == [B1 EXCEPT !.elements[e].validZoom = TRUE]
                B3 == IF B2.elements[e].loaded THEN Invoke(B2, e, "onload")
                      ELSE B2
            IN [B3 EXCEPT !.elements[e].zoomResponse = TRUE]
       ELSE [Invoke(B1, e, "oninvalid") EXCEPT !.elements[e].zoomResponse = TRUE]

\* image.onload of _loadImage for element e
imageOnLoad(B, e) ==
    LET B1 == [B EXCEPT !.elements[e].image = "loaded",
                        !.elements[e].events = Append(@, "image")]
        B2 == IF B1.elements[e].zoomResponse /\ B1.elements[e].validZoom
              THEN Invoke(B1, e, "onload")
              ELSE B1
    IN [B2 EXCEPT !.elements[e].loaded = TRUE]

\* image.onerror of _loadImage for element e: element.onerror itself
imageOnError(B, e) ==
    Invoke([B EXCEPT !.elements[e].image = "failed",
                     !.elements[e].events = Append(@, "image")], e, "onerror")

\* loadTileImage for a tile in the zoom range of the provider, as request r
loadTileImage(B, tile, r) ==
    LET B1 == [B EXCEPT !.requests = Append(@, [tile |-> tile, calls |-> <<>>])]
        element == Element(tile, r)
        existing == findInDeferredQueue(B.deferredQueue, tile)
    IN IF ~B.url
       THEN IF existing = 0
            THEN [B1 EXCEPT !.deferredQueue = Append(@, element)]
            ELSE [B1 EXCEPT
                     !.deferredQueue[existing].onload =
                         combineFunctions(@, element.onload),
                     !.deferredQueue[existing].onerror =
                         combineFunctions(@, element.onerror),
                     !.deferredQueue[existing].oninvalid =
                         combineFunctions(@, element.oninvalid)]
       ELSE [B1 EXCEPT !.elements = Append(@, element)]

\* the jsonp callback of _requestTemplate: the url is set and _loadImage is
\* called for every deferred element
requestTemplateCallback(B) ==
    [B EXCEPT !.url = TRUE, !.elements = @ \o B.deferredQueue,
              !.deferredQueue = <<>>]

-----------------------------------------------------------------------------
(* The texture pool and the fetch and remove functions of the texture cache:
   textures are numbered in the order of their creation *)

MaxTextures == 3
PoolTiles == {1, 2}

tileWidth == 256              \* BingMapsTileProvider: this.tileWidth
tileHeight == 256             \* BingMapsTileProvider: this.tileHeight

\* the providers: one with the tile size of Bing Maps, one that has no
\* tileWidth and tileHeight
NoSize == <<>>
ProviderSizes == {<<tileWidth, tileHeight>>, NoSize}

\* the sizes of the images: a tile of the provider, the 1 x 1 base image and a
\* strip
ImageSizes == {<<tileWidth, tileHeight>>, <<1, 1>>, <<tileWidth, 1>>}

NoTexture == 0
NoTextures ==
    [cache |-> FALSE, pool |-> FALSE, size |-> NoSize, used |-> {}, unused |-> {},
     textures |-> <<>>, texture |-> [t \in PoolTiles |-> NoTexture],
     destroys |-> <<>>,
     call |-> [op |-> "none", tile |-> 0, texture |-> NoTexture, matching |-> FALSE,
               available |-> FALSE, created |-> FALSE, threw |-> FALSE]]

\* _createTextureCache: the pool exists if the provider has a tile size
createTextureCache(G, size) ==
    [G EXCEPT !.cache = TRUE, !.pool = (size # NoSize), !.size = size,
              !.call = [NoTextures.call EXCEPT !.op = "create"]]

\* fetch of _createTextureCache for tile t with an image of the given size;
\* taken is the texture pool.getTexture() returns if it is called
fetch(G, t, size, taken) ==
    LET usePool == G.pool /\ size = G.size
        inPool == usePool /\ G.unused # {}              \* pool.hasAvailable()
        new == Len(G.textures) + 1
        texture == IF inPool THEN taken ELSE new
        G1 == IF inPool
              THEN [G EXCEPT !.unused = @ \ {taken}, !.used = @ \cup {taken}]
              ELSE [G EXCEPT !.textures =
                                 Append(@, [size |-> size, destroyed |-> FALSE])]
        G2 == IF usePool /\ ~inPool                      \* pool.add(texture)
              THEN [G1 EXCEPT !.used = @ \cup {texture}]
              ELSE G1
    IN [G2 EXCEPT !.texture[t] = texture,
                  !.call = [op |-> "fetch", tile |-> t, texture |-> texture,
                            matching |-> usePool, available |-> G.unused # {},
                            created |-> ~inPool, threw |-> FALSE]]

\* texture.destroy(), called by the eviction, by the teardown of the tile tree
\* or by the pool: the calls are kept in the order they were made
Destroy(G, texture, by) ==
    [G EXCEPT !.textures[texture].destroyed = TRUE,
              !.destroys = Append(@, [texture |-> texture, by |-> by])]

\* remove of _createTextureCache for tile t: pool.getWidth() raises a
\* TypeError when there is no pool
remove(G, t) ==
    LET texture == G.texture[t]
        call == [op |-> "remove", tile |-> t, texture |-> texture,
                 matching |-> G.pool /\ G.textures[texture].size = G.size,
                 available |-> G.unused # {}, created |-> FALSE, threw |-> FALSE]
    IN IF ~G.pool THEN [G EXCEPT !.call = [call EXCEPT !.threw = TRUE]]
       ELSE IF G.textures[texture].size = G.size         \* pool.remove(texture)
       THEN [G EXCEPT !.used = @ \ {texture}, !.unused = @ \cup {texture},
                      !.texture[t] = NoTexture, !.call = call]
       ELSE [Destroy(G, texture, "evict") EXCEPT !.texture[t] = NoTexture,
                                                 !.call = call]

\* Texture2DPool.destroy: the pool destroys the textures it holds, those in
\* use and those that are free
RECURSIVE DestroyAll(_, _)
DestroyAll(G, held) ==
    IF held = {} THEN G
    ELSE LET texture == CHOOSE x \in held : \A y \in held : x <= y
         IN DestroyAll(Destroy(G, texture, "pool"), held \ {texture})

\* this._texturePool = this._texturePool && this._texturePool.destroy()
destroyPool(G) ==
    IF G.pool
    THEN [DestroyAll(G, G.used \cup G.unused)
             EXCEPT !.pool = FALSE, !.used = {}, !.unused = {}]
    ELSE G

\* _destroyTileTree over the tiles T, from the stack: the texture of a tile
\* is left to the pool if there is a pool of its size and is destroyed
\* otherwise.  tile.texture.getWidth() on a texture that was destroyed
\* already raises a DeveloperError if destroyed objects are strict, and
\* answers as before if they are not.
RECURSIVE destroyTileTree(_, _, _, _)
destroyTileTree(G, T, stack, strict) ==
    IF stack = <<>> THEN G
    ELSE LET tile == stack[Len(stack)]
             rest == SubSeq(stack, 1, Len(stack) - 1) \o
                         SelectSeq(ChildrenOf(tile), LAMBDA c : c \in T)
             texture == IF tile \in DOMAIN G.texture THEN G.texture[tile]
                        ELSE NoTexture
         IN IF texture = NoTexture THEN destroyTileTree(G, T, rest, strict)
            ELSE IF G.textures[texture].destroyed /\ strict
            THEN [G EXCEPT !.call.threw = TRUE]
            ELSE IF G.pool /\ G.textures[texture].size = G.size
            THEN destroyTileTree([G EXCEPT !.texture[tile] = NoTexture],
                                 T, rest, strict)
            ELSE destroyTileTree(
                     [Destroy(G, texture, "tree")
                         EXCEPT !.texture[tile] = NoTexture], T, rest, strict)

-----------------------------------------------------------------------------
(* Operations *)

Init ==
    /\ tiles = [u \in {Root} |-> NewTile]
    /\ imageQueue = <<>>
    /\ reprojectQueue = <<>>
    /\ textureQueue = <<>>
    /\ renderQueue = <<>>
    /\ cache = <<>>
    /\ cacheCount = 0
    /\ cacheLimit = TextureCacheLimit
    /\ tileFailCount = 0
    /\ lastFailedTime = Undefined
    /\ dayTileProvider = NoProvider
    /\ provider = NoProvider
    /\ treeGen = 1
    /\ orphans = 0
    /\ now = 0
    /\ exception = NoSource
    /\ overlaySource = [k \in Overlays |-> NoSource]
    /\ privOverlaySource = [k \in Overlays |-> NoSource]
    /\ overlayImages = {}
    /\ overlayTextures = {}
    /\ frame = 0
    /\ log = LogOf("init", Undefined, NoLog)
    /\ earth = EarthInit
    /\ bing = NoConversion
    /\ gpu = NoTextures

\* the host assigns centralBody.dayTileProvider, between two frames
AssignProvider(p) ==
    /\ renderQueue = <<>>
    /\ provider = dayTileProvider
    /\ orphans + SumPending(tiles, DOMAIN tiles) <= MaxOrphans
    /\ dayTileProvider' = p
    /\ log' = LogOf("provider", Undefined, log)
    /\ UNCHANGED <<tiles, imageQueue, reprojectQueue, textureQueue, renderQueue,
                   cache, cacheCount, cacheLimit, tileFailCount, lastFailedTime,
                   provider, treeGen, orphans, now>>
    /\ UNCHANGED <<overlayVars, frame, apartVars>>

\* the providers are installed in the order of ProviderOrder
SetDayTileProvider ==
    /\ treeGen <= Len(ProviderOrder)
    /\ AssignProvider(ProviderOrder[treeGen])

\* CentralBody.prototype.update on a canvas that is not empty
UpdateStep(view) ==
    LET S == [UpdateResult(view) EXCEPT !.log.trace = NoTrace]
    IN /\ \A t \in DOMAIN S.tiles : S.tiles[t].pending <= MaxPending
       /\ Commit(S)
       /\ UNCHANGED <<lastFailedTime, dayTileProvider, now, overlaySource,
                      overlayTextures,
                      apartVars>>

\* the same call, watched: the trace of the traversal is kept
TracedUpdate(view) ==
    LET S == [UpdateResult(view) EXCEPT !.log.trace.view = view]
    IN /\ \A t \in DOMAIN S.tiles : S.tiles[t].pending <= MaxPending
       /\ Commit(S)
       /\ UNCHANGED <<lastFailedTime, dayTileProvider, now, overlaySource,
                      overlayTextures, frame, apartVars>>

Update(view) == UpdateStep(view) /\ UNCHANGED frame

\* update called by a frame loop that counts its frames
CountedUpdate(view) == UpdateStep(view) /\ frame' = 1 - frame

\* a render that draws the queue as it is, to show what the sort is needed for
KeepOrder(q) == q

\* this._renderQueue.sort by a.zoom - b.zoom: entries of equal zoom keep
\* their order
RECURSIVE SortByZoom(_)
SortByZoom(q) ==
    IF q = <<>> THEN <<>>
    ELSE LET sorted == SortByZoom(SubSeq(q, 1, Len(q) - 1))
             last == q[Len(q)]
             k == Cardinality({i \in 1..Len(sorted) :
                                  Zoom(sorted[i][2]) <= Zoom(last[2])})
         IN SubSeq(sorted, 1, k) \o <<last>> \o SubSeq(sorted, k + 1, Len(sorted))

\* the loop of render: dequeue and draw until the queue is empty
RECURSIVE DrawAll(_, _)
DrawAll(q, drawn) ==
    IF q = <<>> THEN [queue |-> q, drawn |-> drawn]
    ELSE DrawAll(Tail(q), Append(drawn, Head(q)))

RenderResult == DrawAll(SortByZoom(renderQueue), <<>>)

\* CentralBody.prototype.render with show = true: the render queue is sorted
\* by zoom and drawn until its length is 0
Render ==
    /\ renderQueue # <<>>
    /\ renderQueue' = <<>>
    /\ log' = LogOf("render", Undefined, log)
    /\ UNCHANGED <<tiles, imageQueue, reprojectQueue, textureQueue, cache,
                   cacheCount, cacheLimit, tileFailCount, lastFailedTime,
                   dayTileProvider, provider, treeGen, orphans, now>>
    /\ UNCHANGED <<overlayVars, frame, apartVars>>

\* the same call, watched: the order of the draw calls is kept
TracedRender ==
    /\ renderQueue # <<>>
    /\ renderQueue' = RenderResult.queue
    /\ log' = [LogOf("render", Undefined, log)
                 EXCEPT !.trace.queued = renderQueue,
                        !.trace.drawn = RenderResult.drawn]
    /\ UNCHANGED <<tiles, imageQueue, reprojectQueue, textureQueue, cache,
                   cacheCount, cacheLimit, tileFailCount, lastFailedTime,
                   dayTileProvider, provider, treeGen, orphans, now>>
    /\ UNCHANGED <<overlayVars, frame, apartVars>>

\* render while the host has set show to false: nothing is drawn and the
\* render queue is left as it is
RenderHidden ==
    /\ log' = [LogOf("render", Undefined, log)
                 EXCEPT !.skipped = TRUE, !.trace.queued = renderQueue]
    /\ UNCHANGED <<tiles, imageQueue, reprojectQueue, textureQueue, renderQueue,
                   cache, cacheCount, cacheLimit, tileFailCount, lastFailedTime,
                   dayTileProvider, provider, treeGen, orphans, now>>
    /\ UNCHANGED <<overlayVars, frame, apartVars>>

\* an onload that throws away the image of a tile that went out of sight, to
\* show that the one of _fetchImage does not
OnLoadDiscard(t) ==
    /\ renderQueue = <<>>
    /\ tiles[t].pending > 0
    /\ tiles' = [tiles EXCEPT ![t].pending = @ - 1,
                              ![t].state = IF t \in log.abandoned
                                           THEN READY ELSE IMAGE_LOADED,
                              ![t].image = IF t \in log.abandoned
                                           THEN FALSE ELSE @]
    /\ log' = [LogOf("onload", t, [log EXCEPT !.retrying = @ \ {t}])
                 EXCEPT !.events = <<Event("onload", t, tiles[t].state,
                                           tiles'[t].state)>>]
    /\ UNCHANGED <<imageQueue, reprojectQueue, textureQueue, renderQueue, cache,
                   cacheCount, cacheLimit, tileFailCount, lastFailedTime,
                   dayTileProvider, provider, treeGen, orphans, now>>
    /\ UNCHANGED <<overlayVars, frame, apartVars>>

\* The callbacks _fetchImage hands to the provider.  They run between two
\* frames: update and render of one frame run without yielding.
OnLoad(t) ==
    /\ renderQueue = <<>>
    /\ tiles[t].pending > 0
    /\ tiles' = [tiles EXCEPT ![t].pending = @ - 1, ![t].state = IMAGE_LOADED]
    /\ log' = [LogOf("onload", t, [log EXCEPT !.retrying = @ \ {t}])
                 EXCEPT !.events = <<Event("onload", t, tiles[t].state,
                                           tiles'[t].state)>>]
    /\ UNCHANGED <<imageQueue, reprojectQueue, textureQueue, renderQueue, cache,
                   cacheCount, cacheLimit, tileFailCount, lastFailedTime,
                   dayTileProvider, provider, treeGen, orphans, now>>
    /\ UNCHANGED <<overlayVars, frame, apartVars>>

OnError(t) ==
    /\ renderQueue = <<>>
    /\ tiles[t].pending > 0
    /\ tileFailCount < MaxFailures
    /\ tiles' = [tiles EXCEPT ![t].pending = @ - 1,
                              ![t].failCount = @ + 1,
                              ![t].state = IMAGE_FAILED]
    /\ tileFailCount' = tileFailCount + 1
    /\ lastFailedTime' = now
    /\ log' = [LogOf("onerror", t, [log EXCEPT !.retrying = @ \ {t}])
                 EXCEPT !.events = <<Event("onerror", t, tiles[t].state,
                                           IMAGE_FAILED)>>]
    /\ UNCHANGED <<imageQueue, reprojectQueue, textureQueue, renderQueue, cache,
                   cacheCount, cacheLimit, dayTileProvider, provider, treeGen,
                   orphans, now>>
    /\ UNCHANGED <<overlayVars, frame, apartVars>>

OnInvalid(t) ==
    /\ renderQueue = <<>>
    /\ tiles[t].pending > 0
    /\ tiles' = [tiles EXCEPT ![t].pending = @ - 1, ![t].state = IMAGE_INVALID]
    /\ log' = [LogOf("oninvalid", t, [log EXCEPT !.retrying = @ \ {t}])
                 EXCEPT !.events = <<Event("oninvalid", t, tiles[t].state,
                                           IMAGE_INVALID)>>]
    /\ UNCHANGED <<imageQueue, reprojectQueue, textureQueue, renderQueue, cache,
                   cacheCount, cacheLimit, tileFailCount, lastFailedTime,
                   dayTileProvider, provider, treeGen, orphans, now>>
    /\ UNCHANGED <<overlayVars, frame, apartVars>>

\* a callback of a request issued for a tile of a torn down tree: onerror
\* still counts the failure on the CentralBody
OrphanCallback(failed) ==
    /\ renderQueue = <<>>
    /\ orphans > 0
    /\ orphans' = orphans - 1
    /\ IF failed
       THEN /\ tileFailCount < MaxFailures
            /\ tileFailCount' = tileFailCount + 1
            /\ lastFailedTime' = now
       ELSE UNCHANGED <<tileFailCount, lastFailedTime>>
    /\ log' = LogOf("orphan", Undefined, log)
    /\ UNCHANGED <<tiles, imageQueue, reprojectQueue, textureQueue, renderQueue,
                   cache, cacheCount, cacheLimit, dayTileProvider, provider,
                   treeGen, now>>
    /\ UNCHANGED <<overlayVars, frame, apartVars>>

\* the clock advances, up to limit
TickTo(limit) ==
    /\ renderQueue = <<>>
    /\ now < limit
    /\ now' = now + 1
    /\ log' = LogOf("tick", Undefined, log)
    /\ UNCHANGED <<tiles, imageQueue, reprojectQueue, textureQueue, renderQueue,
                   cache, cacheCount, cacheLimit, tileFailCount, lastFailedTime,
                   dayTileProvider, provider, treeGen, orphans>>
    /\ UNCHANGED <<overlayVars, frame, apartVars>>

Tick == TickTo(MaxTime)

Next ==
    \/ SetDayTileProvider
    \/ \E view \in Views : Update(view)
    \/ Render
    \/ \E t \in DOMAIN tiles : OnLoad(t)
    \/ \E t \in DOMAIN tiles : OnError(t)
    \/ \E t \in DOMAIN tiles : OnInvalid(t)
    \/ \E failed \in BOOLEAN : OrphanCallback(failed)
    \/ Tick

Spec == Init /\ [][Next]_vars

\* The same operations, with the drains and the traversal of update watched
WatchedNext ==
    \/ SetDayTileProvider
    \/ \E view \in Views : TracedUpdate(view)
    \/ Render
    \/ \E t \in DOMAIN tiles : OnLoad(t)
    \/ \E t \in DOMAIN tiles : OnError(t)
    \/ \E t \in DOMAIN tiles : OnInvalid(t)
    \/ \E failed \in BOOLEAN : OrphanCallback(failed)
    \/ Tick

SpecWatched == Init /\ [][WatchedNext]_vars

-----------------------------------------------------------------------------
(* The pipeline alone: one provider, no failures, the clock at rest *)

\* the host installs the first provider
InstallProvider ==
    /\ treeGen = 1
    /\ SetDayTileProvider

StagesNext ==
    \/ InstallProvider
    \/ \E view \in StageViews : Update(view)
    \/ Render
    \/ \E t \in DOMAIN tiles : OnLoad(t)

SpecStages == Init /\ [][StagesNext]_vars

\* The round trip: the camera never looks away.  The frame loop keeps calling
\* update and render and the camera keeps coming close: update is enabled in
\* every state and every counted update is a step (it flips frame), so weak
\* fairness of CountedUpdate(CloseView) says that it happens infinitely often.
\* The provider delivers every callback between two frames, where it is
\* enabled again and again.
RoundTripNext ==
    \/ InstallProvider
    \/ \E view \in OpenViews : CountedUpdate(view)
    \/ Render
    \/ \E t \in DOMAIN tiles : OnLoad(t)

SpecRoundTrip ==
    /\ Init
    /\ [][RoundTripNext]_vars
    /\ WF_vars(InstallProvider)
    /\ []<><<CountedUpdate(CloseView)>>_vars
    /\ WF_vars(Render)
    /\ SF_vars(\E t \in DOMAIN tiles : OnLoad(t))

-----------------------------------------------------------------------------
(* A provider with no imagery above zoom 2 *)

\* The camera looks away or closely at the quadrant of tile 4 and its four
\* children.
ZoomViews ==
    { [visible |-> {}, refine |-> {}],
      [visible |-> {0, 4} \cup 17..20, refine |-> {0, 4}] }

InstallZoom ==
    /\ treeGen = 1
    /\ AssignProvider(ProviderC)

ZoomNext ==
    \/ InstallZoom
    \/ \E view \in ZoomViews : Update(view)
    \/ Render
    \/ \E t \in DOMAIN tiles : OnLoad(t)

SpecZoom == Init /\ [][ZoomNext]_vars

-----------------------------------------------------------------------------
(* The traversal and the draw calls, watched *)

\* a provider like Bing Maps, with no image for the whole globe, and two
\* levels of imagery
ProviderR == [name |-> "R", zoomMin |-> 1, zoomMax |-> 2]

RefineTiles == 0..20

\* the size of a screen pixel, in the unit of the texel sizes
PixelSize == 1

\* the texel sizes a camera gives the tiles: 5 for the tiles of big, 2 for
\* those of edge, 1 for the others
Texels(big, edge) ==
    [t \in RefineTiles |-> IF t \in big THEN 5 ELSE IF t \in edge THEN 2 ELSE 1]

\* a camera in 2D: _cull answers by visible, _refine2D by the texel sizes
CameraOf(visible, texel) ==
    [visible |-> visible,
     texel |-> texel,
     refine |-> {t \in DOMAIN texel : Refine2D(texel[t], PixelSize, pixelError2D)}]

\* The camera looks away; at the quadrant of tile 1, whose texels are 1 pixel
\* or 2 pixels large; or closely at tile 5 in that quadrant, the texels of
\* both being 5 pixels large.
RefineViews ==
    { CameraOf({}, Texels({}, {})),
      CameraOf({0, 1}, Texels({}, {})),
      CameraOf({0, 1}, Texels({}, {1})),
      CameraOf({0, 1, 5}, Texels({1, 5}, {})) }

InstallRefine ==
    /\ treeGen = 1
    /\ AssignProvider(ProviderR)

RefineNext ==
    \/ InstallRefine
    \/ \E view \in RefineViews : TracedUpdate(view)
    \/ TracedRender
    \/ RenderHidden
    \/ \E t \in DOMAIN tiles : OnLoad(t)

SpecRefine == Init /\ [][RefineNext]_vars

\* The four quadrants, watched: the camera looks away, or at the whole globe
\* from far or from close.
QuadrantViews == {NoView} \cup OpenViews

QuadrantsNext ==
    \/ InstallProvider
    \/ \E view \in QuadrantViews : TracedUpdate(view)
    \/ TracedRender
    \/ RenderHidden
    \/ \E t \in DOMAIN tiles : OnLoad(t)

SpecQuadrants == Init /\ [][QuadrantsNext]_vars

-----------------------------------------------------------------------------
(* The render queue across provider changes: the host may assign a provider
   at any time, also while show is false and the render queue holds the
   tiles of the last update *)

ReassignProvider ==
    /\ treeGen <= Len(ProviderOrder)
    /\ provider = dayTileProvider
    /\ orphans + SumPending(tiles, DOMAIN tiles) <= MaxOrphans
    /\ dayTileProvider' = ProviderOrder[treeGen]
    /\ log' = LogOf("provider", Undefined, log)
    /\ UNCHANGED <<tiles, imageQueue, reprojectQueue, textureQueue, renderQueue,
                   cache, cacheCount, cacheLimit, tileFailCount, lastFailedTime,
                   provider, treeGen, orphans, now>>
    /\ UNCHANGED <<overlayVars, frame, apartVars>>

DrawNext ==
    \/ ReassignProvider
    \/ \E view \in QuadrantViews : Update(view)
    \/ Render
    \/ RenderHidden
    \/ \E t \in DOMAIN tiles : OnLoad(t)

SpecDraw == Init /\ [][DrawNext]_vars

-----------------------------------------------------------------------------
(* The quad-tree of the earth, grown from its root *)

\* a call of getChildren on a tile of the tree
GetChildrenCall(p) ==
    /\ earth.tiles[p].level + 1 \in Depths
    /\ earth' = [tiles |-> getChildren(earth.tiles, p),
                 call |-> [op |-> "getChildren", tile |-> p,
                           before |-> earth.tiles[p].children,
                           created |-> Cardinality(DOMAIN getChildren(earth.tiles, p))
                                       - Cardinality(DOMAIN earth.tiles)]]
    /\ UNCHANGED <<bodyVars, bing, gpu>>

\* a call of traverse on the root
TraverseCall(j) ==
    /\ earth' = [tiles |-> traverse(earth.tiles, RootPath, j),
                 call |-> [op |-> "traverse", tile |-> RootPath,
                           before |-> earth.tiles[RootPath].children,
                           created |-> Cardinality(DOMAIN traverse(earth.tiles, RootPath, j))
                                       - Cardinality(DOMAIN earth.tiles)]]
    /\ UNCHANGED <<bodyVars, bing, gpu>>

EarthNext ==
    \/ \E p \in DOMAIN earth.tiles :
           (OnSpine(1, p) \/ OnSpine(2, p)) /\ GetChildrenCall(p)
    \/ \E j \in [spine : {1, 2}, depth : Depths] : TraverseCall(j)

SpecEarth == Init /\ [][EarthNext]_vars

-----------------------------------------------------------------------------
(* The quadkey of a tile, and the tile of that quadkey *)

TileXYToQuadKeyCall(x, y, zoom) ==
    /\ bing' = [NoConversion EXCEPT !.op = "tileXYToQuadKey",
                                    !.x = x, !.y = y, !.zoom = zoom,
                                    !.quadkey = tileXYToQuadKey(x, y, zoom)]
    /\ UNCHANGED <<bodyVars, earth, gpu>>

QuadKeyToTileXYCall ==
    /\ bing.op = "tileXYToQuadKey"
    /\ bing' = [bing EXCEPT !.op = "quadKeyToTileXY",
                            !.result = quadKeyToTileXY(bing.quadkey)]
    /\ UNCHANGED <<bodyVars, earth, gpu>>

QuadKeyNext ==
    \/ \E zoom \in 0..MaxZoom :
           \E x, y \in 0..(Pow2(zoom) - 1) : TileXYToQuadKeyCall(x, y, zoom)
    \/ QuadKeyToTileXYCall

SpecQuadKey == Init /\ [][QuadKeyNext]_vars

-----------------------------------------------------------------------------
(* The image loads of the Bing Maps provider *)

LoadTileImageCall(tile) ==
    /\ Len(bing.requests) < MaxRequests
    /\ bing' = [loadTileImage(bing, tile, Len(bing.requests) + 1)
                   EXCEPT !.op = "loadTileImage"]
    /\ UNCHANGED <<bodyVars, earth, gpu>>

RequestTemplateCallback ==
    /\ ~bing.url
    /\ bing' = [requestTemplateCallback(bing) EXCEPT !.op = "template"]
    /\ UNCHANGED <<bodyVars, earth, gpu>>

MetadataCallback(e, kind) ==
    /\ bing.elements[e].metadata = "pending"
    /\ bing' = [metadataCallback(bing, e, kind) EXCEPT !.op = "metadata"]
    /\ UNCHANGED <<bodyVars, earth, gpu>>

ImageOnLoad(e) ==
    /\ bing.elements[e].image = "pending"
    /\ bing' = [imageOnLoad(bing, e) EXCEPT !.op = "image.onload"]
    /\ UNCHANGED <<bodyVars, earth, gpu>>

ImageOnError(e) ==
    /\ bing.elements[e].image = "pending"
    /\ bing' = [imageOnError(bing, e) EXCEPT !.op = "image.onerror"]
    /\ UNCHANGED <<bodyVars, earth, gpu>>

BingNext ==
    \/ \E tile \in BingTiles : LoadTileImageCall(tile)
    \/ RequestTemplateCallback
    \/ \E e \in DOMAIN bing.elements :
           \E kind \in {"none", "valid", "invalid"} : MetadataCallback(e, kind)
    \/ \E e \in DOMAIN bing.elements : ImageOnLoad(e)
    \/ \E e \in DOMAIN bing.elements : ImageOnError(e)

SpecBing == Init /\ [][BingNext]_vars

-----------------------------------------------------------------------------
(* The texture cache fetches a texture on a miss and removes one on an
   eviction *)

CreateTextureCache(size) ==
    /\ ~gpu.cache
    /\ gpu' = createTextureCache(gpu, size)
    /\ UNCHANGED <<bodyVars, earth, bing>>

FetchCall(t, size) ==
    /\ gpu.cache
    /\ gpu.texture[t] = NoTexture
    /\ Len(gpu.textures) < MaxTextures
    /\ \E taken \in IF gpu.unused = {} THEN {NoTexture} ELSE gpu.unused :
           gpu' = fetch(gpu, t, size, taken)
    /\ UNCHANGED <<bodyVars, earth, bing>>

RemoveCall(t) ==
    /\ gpu.cache
    /\ gpu.texture[t] # NoTexture
    /\ gpu' = remove(gpu, t)
    /\ UNCHANGED <<bodyVars, earth, bing>>

PoolNext ==
    \/ \E size \in ProviderSizes : CreateTextureCache(size)
    \/ \E t \in PoolTiles, size \in ImageSizes : FetchCall(t, size)
    \/ \E t \in PoolTiles : RemoveCall(t)

SpecPool == Init /\ [][PoolNext]_vars

-----------------------------------------------------------------------------
(* The overlays: the host sets their sources, update loads them *)

\* the host assigns centralBody.nightImageSource, specularMapSource,
\* cloudsMapSource or bumpMapSource, between two frames
SetOverlaySource(k) ==
    /\ renderQueue = <<>>
    /\ overlaySource[k] = NoSource
    /\ Cardinality({j \in Overlays : overlaySource[j] # NoSource}) < MaxOverlays
    /\ overlaySource' = [overlaySource EXCEPT ![k] = k]
    /\ log' = LogOf("source", Undefined, log)
    /\ UNCHANGED <<tiles, imageQueue, reprojectQueue, textureQueue, renderQueue,
                   cache, cacheCount, cacheLimit, tileFailCount, lastFailedTime,
                   dayTileProvider, provider, treeGen, orphans, now, exception,
                   privOverlaySource, overlayImages, overlayTextures, frame, apartVars>>

\* onload of an overlay image: its texture is created
OverlayOnLoad(k) ==
    /\ renderQueue = <<>>
    /\ k \in overlayImages
    /\ overlayImages' = overlayImages \ {k}
    /\ overlayTextures' = overlayTextures \cup {k}
    /\ log' = LogOf("overlayload", Undefined, log)
    /\ UNCHANGED <<tiles, imageQueue, reprojectQueue, textureQueue, renderQueue,
                   cache, cacheCount, cacheLimit, tileFailCount, lastFailedTime,
                   dayTileProvider, provider, treeGen, orphans, now, exception,
                   overlaySource, privOverlaySource, frame, apartVars>>

\* onerror of an overlay image: the message, which names the source, is left
\* for the next update
OverlayOnError(k) ==
    /\ renderQueue = <<>>
    /\ k \in overlayImages
    /\ overlayImages' = overlayImages \ {k}
    /\ exception' = privOverlaySource[k]
    /\ log' = LogOf("overlayerror", Undefined, log)
    /\ UNCHANGED <<tiles, imageQueue, reprojectQueue, textureQueue, renderQueue,
                   cache, cacheCount, cacheLimit, tileFailCount, lastFailedTime,
                   dayTileProvider, provider, treeGen, orphans, now,
                   overlaySource, privOverlaySource, overlayTextures, frame, apartVars>>

\* update on a canvas of width or height 0: it returns at once
UpdateNoCanvas ==
    /\ log' = [LogOf("update", Undefined, log) EXCEPT !.skipped = TRUE]
    /\ UNCHANGED <<tiles, imageQueue, reprojectQueue, textureQueue, renderQueue,
                   cache, cacheCount, cacheLimit, tileFailCount, lastFailedTime,
                   dayTileProvider, provider, treeGen, orphans, now, exception,
                   overlaySource, privOverlaySource, overlayImages,
                   overlayTextures, frame, apartVars>>

\* the tile requests stay in flight, so that no tile gets to be drawn: only
\* the overlay images resolve
OverlayNext ==
    \/ InstallProvider
    \/ \E k \in Overlays : SetOverlaySource(k)
    \/ \E view \in OpenViews : Update(view)
    \/ UpdateNoCanvas
    \/ \E k \in Overlays : OverlayOnLoad(k)
    \/ \E k \in Overlays : OverlayOnError(k)

SpecOverlay == Init /\ [][OverlayNext]_vars

-----------------------------------------------------------------------------
(* The texture cache alone: tiles arrive at the upload stage one at a time *)

ProviderDeep == [name |-> "deep", zoomMin |-> 0, zoomMax |-> 4]

\* a tree refined down to zoom 4 along its first quadrants
CacheTiles == {0} \cup (1..4) \cup (5..8) \cup (21..24) \cup (85..88)

\* the tiles that ask for a texture: tile 2 has zoom 1, tiles 21 and 22 have
\* zoom 3 and tile 85, a child of 21, has zoom 4
CacheKeys == {2, 21, 22, 85}

CacheInit ==
    /\ tiles = [u \in CacheTiles |-> NewTile]
    /\ imageQueue = <<>>
    /\ reprojectQueue = <<>>
    /\ textureQueue = <<>>
    /\ renderQueue = <<>>
    /\ cache = <<>>
    /\ cacheCount = 0
    /\ cacheLimit \in 1..MaxCacheLimit
    /\ tileFailCount = 0
    /\ lastFailedTime = Undefined
    /\ dayTileProvider = ProviderDeep
    /\ provider = ProviderDeep
    /\ treeGen = 2
    /\ orphans = 0
    /\ now = 0
    /\ exception = NoSource
    /\ overlaySource = [k \in Overlays |-> NoSource]
    /\ privOverlaySource = [k \in Overlays |-> NoSource]
    /\ overlayImages = {}
    /\ overlayTextures = {}
    /\ frame = 0
    /\ log = LogOf("init", Undefined, NoLog)
    /\ earth = EarthInit
    /\ bing = NoConversion
    /\ gpu = NoTextures

\* one iteration of _throttleTextures for tile t, in sight and with its image:
\* this._textureCache.find(tile), a hit for a resident tile and a miss otherwise
Acquire(t) ==
    LET S0 == [Current("find") EXCEPT !.log.tile = t,
                                      !.tiles[t].image = TRUE,
                                      !.tiles[t].state = TEXTURE_LOADING]
    IN /\ Commit(Upload(S0, t))
       /\ UNCHANGED <<lastFailedTime, dayTileProvider, now, overlaySource,
                      overlayTextures, frame, apartVars>>

CacheTick == TickTo(MaxCacheTime)

CacheNext ==
    \/ \E t \in CacheKeys : Acquire(t)
    \/ CacheTick

SpecCache == CacheInit /\ [][CacheNext]_vars

-----------------------------------------------------------------------------
(* The texture cache together with the pool: the textures behind the entries *)

\* _createTextureCache for a provider with the tile size of Bing Maps, on a
\* tree none of whose tiles has a texture
CreateBudgetCache ==
    /\ ~gpu.cache
    /\ gpu' = createTextureCache(
                  [NoTextures EXCEPT !.texture = [t \in CacheKeys |-> NoTexture]],
                  <<tileWidth, tileHeight>>)
    /\ UNCHANGED <<bodyVars, earth, bing>>

\* what a find does to the textures: a hit returns the texture of the entry;
\* a miss calls fetch first, and removeFunc for the entry it evicts; when the
\* miss raises, the texture it fetched is returned to nobody
FindTextures(G, S, t, size, taken) ==
    LET G1 == fetch(G, t, size, taken)
    IN IF S.log.threw THEN [G1 EXCEPT !.texture[t] = NoTexture]
       ELSE IF S.log.evicted # <<>> THEN remove(G1, S.log.evicted[1].tile)
       ELSE G1

\* one iteration of _throttleTextures for tile t, in sight and with an image
\* of the given size
AcquireTexture(t, size) ==
    LET S0 == [Current("find") EXCEPT !.log.tile = t,
                                      !.tiles[t].image = TRUE,
                                      !.tiles[t].state = TEXTURE_LOADING]
        S1 == Upload(S0, t)
    IN /\ gpu.cache
       /\ Len(gpu.textures) < MaxTextures
       /\ Commit(S1)
       /\ IF Contains(cache, t) THEN gpu' = gpu
          ELSE \E taken \in IF gpu.unused = {} THEN {NoTexture} ELSE gpu.unused :
                   gpu' = FindTextures(gpu, S1, t, size, taken)
       /\ UNCHANGED <<lastFailedTime, dayTileProvider, now, overlaySource,
                      overlayTextures, frame, earth, bing>>

BudgetNext ==
    \/ CreateBudgetCache
    \/ \E t \in CacheKeys, size \in ImageSizes : AcquireTexture(t, size)
    \/ CacheTick

SpecBudget == CacheInit /\ [][BudgetNext]_vars

-----------------------------------------------------------------------------
(* The teardown of the tile tree, with the textures it finds *)

\* what the teardown leaves of the body: a tree of tiles that start over and
\* an empty cache
TornDown(op) ==
    /\ tiles' = [u \in DOMAIN tiles |-> NewTile]
    /\ cache' = <<>>
    /\ cacheCount' = 0
    /\ log' = LogOf(op, Undefined, log)
    /\ UNCHANGED <<imageQueue, reprojectQueue, textureQueue, renderQueue,
                   cacheLimit, tileFailCount, lastFailedTime, dayTileProvider,
                   provider, treeGen, orphans, now, overlayVars, frame, earth,
                   bing>>

\* the provider change of update: the tile tree is torn down, then the pool
\* and the cache are destroyed
ChangeTeardown ==
    /\ gpu.cache
    /\ LET G0 == [gpu EXCEPT !.call = [NoTextures.call EXCEPT !.op = "change"]]
           G1 == destroyTileTree(G0, DOMAIN tiles, <<Root>>, TRUE)
       IN gpu' = [destroyPool(G1) EXCEPT !.cache = FALSE]
    /\ TornDown("change")

\* CentralBody.prototype.destroy: the pool and the cache are destroyed, then
\* the tile tree is torn down
DestroyCall(strict) ==
    /\ gpu.cache
    /\ LET G0 == [gpu EXCEPT !.call = [NoTextures.call EXCEPT !.op = "destroy"]]
           G1 == destroyTileTree(destroyPool(G0), DOMAIN tiles, <<Root>>, strict)
       IN gpu' = [G1 EXCEPT !.cache = FALSE]
    /\ TornDown("destroy")

TeardownNext ==
    \/ BudgetNext
    \/ ChangeTeardown
    \/ \E strict \in BOOLEAN : DestroyCall(strict)

SpecTeardown == CacheInit /\ [][TeardownNext]_vars

-----------------------------------------------------------------------------
(* The stage queues *)

StageQueues == imageQueue \o reprojectQueue \o textureQueue

\* C1: after any sequence of updates, provider changes and image callbacks, no
\* tile is in more than one of the image, reproject and texture queues, and no
\* tile is twice in one of them.
C1_NoTileQueuedTwice ==
    \A i, j \in 1..Len(StageQueues) :
        i # j => StageQueues[i] # StageQueues[j]

\* an update of the second tree, after callbacks and a provider change, that
\* put a tile back into the image queue through the retry branch
C1_Witness ==
    /\ log.op = "update"
    /\ treeGen > 2
    /\ log.retried # {}
    /\ imageQueue # <<>>

\* C2: in every update each of the three drains dequeues at most its throttle
\* limit of tiles, however long the queue is and whether or not the dequeued
\* tiles are culled.
C2_DrainsWithinLimit ==
    /\ log.drained.image <= ImageThrottleLimit
    /\ log.drained.reproject <= ReprojectThrottleLimit
    /\ log.drained.texture <= TextureThrottleLimit
    /\ log.drained.image <= log.length.image
    /\ Len(imageQueue) >= log.length.image - log.drained.image

\* an update whose image queue was longer than the limit: the drain took
\* exactly the limit, culled tiles among them
C2_Witness ==
    /\ log.op = "update"
    /\ log.length.image > ImageThrottleLimit
    /\ log.drained.image = ImageThrottleLimit
    /\ log.dropped # {}

-----------------------------------------------------------------------------
(* The texture cache *)

Resident == SeqToSet(cache)
Unprotected(c) == {u \in SeqToSet(c) : Zoom(u) > ProtectedZoom}
Evicted == {log.evicted[i].tile : i \in 1..Len(log.evicted)}

\* C3: after any sequence of hits and misses the number of entries resident in
\* the texture cache never exceeds the limit, no entry is resident twice, and
\* the count the policy keeps is the number of resident entries.
C3_CacheWithinLimit ==
    /\ Len(cache) <= cacheLimit
    /\ Cardinality(Resident) = Len(cache)
    /\ cacheCount = Len(cache)

\* a miss at capacity that evicted an entry: the cache is still full
C3_Witness ==
    /\ log.op = "find"
    /\ log.evicted # <<>>
    /\ Len(cache) = cacheLimit
    /\ cacheLimit > 1

\* C4: whenever a cache entry is evicted, the evicted tile is left in state
\* READY with no texture and it is no longer resident; a tile that is not
\* resident is never in state TEXTURE_LOADED.
C4_EvictedTileStartsOver ==
    /\ \A i \in 1..Len(log.evicted) :
           /\ log.evicted[i].state = READY
           /\ ~log.evicted[i].texture
           /\ ~log.evicted[i].resident
    /\ \A t \in Evicted :
           /\ tiles[t].state = READY
           /\ ~tiles[t].texture
           /\ t \notin Resident
    /\ \A t \in DOMAIN tiles :
           tiles[t].state = TEXTURE_LOADED => t \in Resident /\ tiles[t].texture

\* a miss that evicted a tile which had its texture, while another tile keeps
\* its own
C4_Witness ==
    /\ log.op = "find"
    /\ Len(log.evicted) = 1
    /\ \E t \in Resident \ {log.tile} : tiles[t].state = TEXTURE_LOADED

\* C5: a resident entry whose tile has zoom <= 2 is never the eviction victim,
\* whatever the misses at capacity and the mix of resident entries.
C5_ProtectedNeverEvicted ==
    \A t \in Evicted : Zoom(t) > ProtectedZoom

\* a miss at capacity that evicted an entry although a resident entry of zoom
\* <= 2 was touched longer ago than the victim
C5_Witness ==
    /\ log.op = "find"
    /\ \E v \in Evicted :
           \E u \in Resident :
               /\ Zoom(u) <= ProtectedZoom
               /\ tiles[u].lastHit < tiles[v].lastHit

\* C6: on a miss at capacity while at least one resident entry has zoom > 2,
\* exactly one entry is evicted, it is the one touched longest ago among the
\* resident entries with zoom > 2, and the new entry is then resident.
C6_MissEvictsOldest ==
    [][(/\ log'.op = "find"
        /\ log'.tile \notin Resident
        /\ cacheCount >= cacheLimit
        /\ Unprotected(cache) # {})
       => /\ Len(log'.evicted) = 1
          /\ \A i \in 1..Len(log'.evicted) :
                LET v == log'.evicted[i].tile
                IN /\ v \in Unprotected(cache)
                   /\ \A u \in Unprotected(cache) :
                          tiles'[v].lastHit <= tiles'[u].lastHit
          /\ log'.tile \in SeqToSet(cache')
          /\ ~log'.threw]_vars

-----------------------------------------------------------------------------
(* The round trip *)

Requested(t) == t \in DOMAIN tiles /\ tiles[t].pending > 0
Uploaded(t) ==
    /\ t \in DOMAIN tiles
    /\ tiles[t].state = TEXTURE_LOADED
    /\ ~tiles[t].image
    /\ tiles[t].texture

-----------------------------------------------------------------------------
(* Culling, failures and retries *)

\* C8 as the specification states it: when the callback of a request resolves
\* for a tile that went out of sight while the request was in flight, the
\* result is discarded and the tile is in state READY with no texture.
C8_CulledRequestDiscarded ==
    [][(log'.op = "onload" /\ log'.tile \in log.abandoned)
       => /\ tiles'[log'.tile].state = READY
          /\ ~tiles'[log'.tile].image
          /\ ~tiles'[log'.tile].texture]_vars

\* C8 as the code has it: onload puts the tile in state IMAGE_LOADED and keeps
\* its image whether or not the tile went out of sight while the request was
\* in flight; the texture is left as it was.
C8_CallbackKeepsImage ==
    [][log'.op = "onload"
       => /\ tiles'[log'.tile].state = IMAGE_LOADED
          /\ tiles'[log'.tile].image = tiles[log'.tile].image
          /\ tiles'[log'.tile].texture = tiles[log'.tile].texture]_vars

\* the callback of a tile that was out of sight at the last update has resolved
\* and the tile holds its image in state IMAGE_LOADED
C8_Witness ==
    /\ log.op = "onload"
    /\ log.tile \in log.abandoned
    /\ tiles[log.tile].state = IMAGE_LOADED
    /\ tiles[log.tile].image
    /\ ~tiles[log.tile].texture

Processed(l) == l.retried \cup l.refused

\* C9: before the cool-down has elapsed, a tile in IMAGE_FAILED that
\* _processTile looks at is put back into the image queue if and only if its
\* own failure count is below perTileMaxFailCount and the global failure count
\* does not exceed maxTileFailCount.
C9_RetryWithinCeilings ==
    [][(log'.op = "update" /\ provider = dayTileProvider /\ ~MaxTimePassed)
       => \A t \in Processed(log') :
              tiles[t].state = IMAGE_FAILED
              => (t \in log'.retried
                  <=> /\ tiles[t].failCount < perTileMaxFailCount
                      /\ tileFailCount <= maxTileFailCount)]_vars

\* C10: once the cool-down has elapsed, a tile in IMAGE_FAILED that
\* _processTile looks at is put back into the image queue whatever its failure
\* count, and it is not put there again while that retry is queued or in
\* flight.
C10_RetriedOnce ==
    [][(log'.op = "update" /\ provider = dayTileProvider)
       => /\ \A t \in Processed(log') :
                 (tiles[t].state = IMAGE_FAILED /\ MaxTimePassed)
                 => t \in log'.retried
          /\ \A t \in log'.retried : t \notin log.retrying]_vars

\* the failed tiles that an update put back into the image queue
RetriedFailed == {t \in log'.retried : tiles[t].state = IMAGE_FAILED}

-----------------------------------------------------------------------------
(* C12-C15: the states of a tile and the stage queues *)

\* C12: a tile in IMAGE_INVALID is put into no stage queue and keeps its state
\* for as long as the provider is not changed.
C12_InvalidIsTerminal ==
    [][\A t \in DOMAIN tiles :
          (tiles[t].state = IMAGE_INVALID /\ treeGen' = treeGen)
          => /\ tiles'[t].state = IMAGE_INVALID
             /\ \A q \in {imageQueue', reprojectQueue', textureQueue'} :
                    ~Contains(q, t)]_vars

\* C13: between two operations, a tile in the image queue is IMAGE_LOADING, a
\* tile in the reproject queue is REPROJECTING and a tile in the texture queue
\* is TEXTURE_LOADING.
C13_QueueMatchesState ==
    \A t \in DOMAIN tiles :
        /\ Contains(imageQueue, t) => tiles[t].state = IMAGE_LOADING
        /\ Contains(reprojectQueue, t) => tiles[t].state = REPROJECTING
        /\ Contains(textureQueue, t) => tiles[t].state = TEXTURE_LOADING

\* the tiles whose image request has been issued and has not resolved yet
InFlight == {t \in DOMAIN tiles : tiles[t].pending > 0}

\* C14: a tile whose request is in flight is not put into the image queue
\* again, and no tile has two requests in flight.
C14_OneRequestPerTile ==
    [][\A t \in InFlight :
          (tiles[t].state = IMAGE_LOADING /\ ~Contains(imageQueue, t)
             /\ treeGen' = treeGen)
          => /\ ~Contains(imageQueue', t)
             /\ tiles'[t].pending <= 1]_vars

DrainKinds == {"image", "reproject", "texture"}

\* C15: every change of a tile's state is a step of the state machine
\* READY -> IMAGE_LOADING -> IMAGE_LOADED | IMAGE_FAILED | IMAGE_INVALID,
\* IMAGE_LOADED -> REPROJECTING -> REPROJECTED -> TEXTURE_LOADING ->
\* TEXTURE_LOADED, IMAGE_FAILED -> IMAGE_LOADING; a tile goes back to READY
\* only when a drain drops it or the cache evicts it, and a TEXTURE_LOADED
\* tile changes only by eviction.
C15_StateMachine ==
    LET Steps == {<<READY, IMAGE_LOADING>>, <<IMAGE_LOADING, IMAGE_LOADED>>,
                  <<IMAGE_LOADING, IMAGE_FAILED>>, <<IMAGE_LOADING, IMAGE_INVALID>>,
                  <<IMAGE_LOADED, REPROJECTING>>, <<REPROJECTING, REPROJECTED>>,
                  <<REPROJECTED, TEXTURE_LOADING>>,
                  <<TEXTURE_LOADING, TEXTURE_LOADED>>,
                  <<IMAGE_FAILED, IMAGE_LOADING>>}
        Follows(e) ==
            IF e.kind = "evict" THEN e.to = READY
            ELSE IF e.to = READY
            THEN e.kind \in DrainKinds /\ e.tile \in log.dropped
                 /\ e.from # TEXTURE_LOADED
            ELSE <<e.from, e.to>> \in Steps
    IN \A i \in DOMAIN log.events :
           log.events[i].from # log.events[i].to => Follows(log.events[i])

-----------------------------------------------------------------------------
(* C16: the order of the steps of one update *)

\* the position of a step in update: prefetch of a provider change, the three
\* drains (an eviction is part of the texture drain), the traversal
Rank(kind) ==
    CASE kind = "prefetch" -> 0
      [] kind = "image" -> 1
      [] kind = "reproject" -> 2
      [] kind \in {"texture", "evict"} -> 3
      [] kind = "traverse" -> 4

\* C16: in one update the image drain runs before the reproject drain, that
\* one before the texture drain, and all three before the traversal puts a
\* tile into a queue; no tile is dequeued by two drains of the same update.
C16_OneDrainPerUpdate ==
    log.op = "update" =>
        \A i, j \in DOMAIN log.events :
            i < j =>
                /\ Rank(log.events[i].kind) <= Rank(log.events[j].kind)
                /\ (log.events[i].kind \in DrainKinds
                      /\ log.events[j].kind \in DrainKinds)
                   => log.events[i].tile # log.events[j].tile

\* an update dequeued tiles in two different drains and the traversal then
\* put one of them into the next queue
C16_Witness ==
    /\ log.op = "update"
    /\ \E i, j, k \in DOMAIN log.events :
           /\ i < j /\ j < k
           /\ log.events[i].kind \in DrainKinds
           /\ log.events[j].kind \in DrainKinds
           /\ log.events[i].kind # log.events[j].kind
           /\ log.events[k].kind = "traverse"
           /\ log.events[k].tile \in {log.events[i].tile, log.events[j].tile}

-----------------------------------------------------------------------------
(* C17: the error of an overlay image *)

\* C17 as the specification states it: when the load of an overlay image has
\* failed, the next call of update throws a RuntimeError with the message of
\* the failure and forgets the error.
C17_NextUpdateThrows ==
    [][(exception # NoSource /\ log'.op = "update")
       => /\ log'.raised = exception
          /\ exception' = NoSource]_vars

\* C17 as the code has it: the next call of update on a canvas that is not
\* empty throws the RuntimeError with the message of the latest failure and
\* forgets the error; a call on an empty canvas returns before it looks at the
\* error and leaves it pending; an update with no error pending throws no
\* RuntimeError.
C17_NextDrawnUpdateThrows ==
    [][log'.op = "update"
       => IF log'.skipped
          THEN exception' = exception /\ log'.raised = NoSource
          ELSE log'.raised = exception /\ exception' = NoSource]_vars

\* an update has thrown the error of an overlay image that failed while
\* another one was still loading
C17_Witness ==
    /\ log.op = "update"
    /\ log.raised \in Overlays
    /\ exception = NoSource
    /\ overlayImages # {}

-----------------------------------------------------------------------------
(* C18-C20: the cache and the traversal, images and textures, exceptions *)

\* the tiles this update put into the render queue: the traversal visited
\* them, they passed the cull test and they have their texture
Drawn == {t \in DOMAIN tiles :
             /\ ~Contains(renderQueue, <<treeGen, t>>)
             /\ Contains(renderQueue', <<treeGen, t>>)}

\* C18: a tile with an entry in the cache that the traversal of an update
\* visits and that passes the cull test has the time of that update as its
\* last-touched time.
C18_VisitedTileTouched ==
    [][(log'.op = "update" /\ treeGen' = treeGen)
       => \A t \in Drawn : Contains(cache, t) => tiles'[t].lastHit = now]_vars

\* C19: between two operations no tile has both its image and a texture, or
\* its image and the state TEXTURE_LOADED.
C19_ImageOrTexture ==
    \A t \in DOMAIN tiles :
        ~(tiles[t].image /\ (tiles[t].texture \/ tiles[t].state = TEXTURE_LOADED))

\* C20: no exception leaves update from a drain of a stage queue or from the
\* processing of a tile.
C20_NoThrowFromDrain ==
    log.op = "update" => log.thrower \notin DrainKinds

-----------------------------------------------------------------------------
(* C21-C24: the traversal and the draw calls *)

HasTexture(t) ==
    /\ t \in DOMAIN tiles
    /\ tiles[t].state = TEXTURE_LOADED
    /\ tiles[t].texture

InRenderQueue(t) == Contains(renderQueue, <<treeGen, t>>)

Kids(t) == SeqToSet(ChildrenOf(t))

\* the states in which a tile waits for _processTile to put it into a queue
Waiting == {READY, IMAGE_LOADED, REPROJECTED}

\* C21: after an update, a tile that the traversal visited, that passed the
\* cull test and that has its texture is in the render queue, or its four
\* children all have their textures; every child without a texture of a tile
\* the traversal refined was handed to _processTile, which left it in no
\* state that waits for a queue, and the refined tile is in the render queue.
C21_DrawnOrRefined ==
    (log.op = "update" /\ ~log.threw) =>
        /\ \A t \in log.trace.visited :
               HasTexture(t) =>
                   \/ InRenderQueue(t)
                   \/ \A c \in Kids(t) : HasTexture(c)
        /\ \A t \in log.trace.refined :
               \A c \in Kids(t) :
                   ~HasTexture(c) =>
                       /\ c \in log.trace.processed
                       /\ tiles[c].state \notin Waiting
                       /\ InRenderQueue(t)

\* an update refined a tile of which one child has its texture and another
\* has not: the tile is in the render queue, and so is the child
C21_Witness ==
    /\ log.op = "update"
    /\ \E t \in log.trace.refined :
           /\ InRenderQueue(t)
           /\ \E c \in Kids(t) : HasTexture(c) /\ InRenderQueue(c)
           /\ \E c \in Kids(t) : ~HasTexture(c) /\ c \in log.trace.processed

\* C22: the traversal of an update puts no tile into a stage queue that fails
\* the cull test of that update, the culled children of a refined tile in
\* sight included.
C22_CulledNeverEnqueued ==
    log.op = "update" =>
        \A i \in DOMAIN log.events :
            log.events[i].kind = "traverse"
            => ~Cull(log.trace.view, log.events[i].tile)

\* C23: the draw calls of one render are issued in non-decreasing zoom: no
\* tile is drawn after a tile of larger zoom.
C23_DrawnByZoom ==
    log.op = "render" =>
        \A i, j \in DOMAIN log.trace.drawn :
            i < j => Zoom(log.trace.drawn[i][2]) <= Zoom(log.trace.drawn[j][2])

\* a render found a tile of larger zoom queued before one of smaller zoom and
\* drew them the other way round
C23_Witness ==
    /\ log.op = "render"
    /\ \E i, j \in DOMAIN log.trace.queued :
           /\ i < j
           /\ Zoom(log.trace.queued[i][2]) > Zoom(log.trace.queued[j][2])
    /\ Len(log.trace.drawn) = Len(log.trace.queued)

\* the screen-space error of a tile in 2D exceeds the pixel-error threshold:
\* its texel is larger than pixelError2D pixels
ErrorExceeds(view, t) == view.texel[t] > pixelError2D * PixelSize

\* C24: a tile the traversal visited, that passed the cull test and has its
\* texture, is refined exactly if its error exceeds the pixel-error threshold
\* or its zoom is below zoomMin, and zoom + 1 <= zoomMax: then its four
\* children exist and each is visited or processed; otherwise the tile is in
\* the render queue and the traversal neither asked for its children nor
\* visited or processed one of them.
C24_RefinesIffError ==
    (log.op = "update" /\ ~log.threw) =>
        \A t \in log.trace.visited :
            HasTexture(t) =>
                LET refines ==
                        /\ \/ ErrorExceeds(log.trace.view, t)
                           \/ Zoom(t) < provider.zoomMin
                        /\ Zoom(t) + 1 <= provider.zoomMax
                IN /\ t \in log.trace.refined <=> refines
                   /\ t \in log.trace.refined =>
                          \A c \in Kids(t) :
                              /\ c \in DOMAIN tiles
                              /\ \/ c \in log.trace.processed
                                 \/ HasTexture(c)
                   /\ t \notin log.trace.refined =>
                          /\ InRenderQueue(t)
                          /\ \A c \in Kids(t) :
                                 c \notin log.trace.processed \cup log.trace.visited

\* one update refined tile 1, at zoomMin with an error of 5 pixels, into four
\* children, and left tile 5, with the same error at zoomMax, unrefined in
\* the render queue
C24_Witness ==
    /\ log.op = "update"
    /\ 1 \in log.trace.refined
    /\ Zoom(1) >= provider.zoomMin
    /\ log.trace.view.texel[1] = 5
    /\ Kids(1) \subseteq DOMAIN tiles
    /\ 5 \in log.trace.visited \ log.trace.refined
    /\ HasTexture(5)
    /\ log.trace.view.texel[5] = 5
    /\ InRenderQueue(5)

-----------------------------------------------------------------------------
(* C25-C26: the quad-tree of src/earth/tile/tile.js *)

\* the tile at path k is the child of index i the claim gives a tile with
\* column c and row r: (2c, 2r), (2c+1, 2r), (2c, 2r+1), (2c+1, 2r+1)
IsChild(T, k, i, c, r) ==
    /\ T[k].column \div 2 = c
    /\ T[k].column % 2 = (IF i \in {2, 4} THEN 1 ELSE 0)
    /\ T[k].row \div 2 = r
    /\ T[k].row % 2 = (IF i \in {3, 4} THEN 1 ELSE 0)

\* C25: getChildren is lazy and idempotent: the first call on a tile (c, r, l)
\* creates exactly four children (2c, 2r), (2c+1, 2r), (2c, 2r+1),
\* (2c+1, 2r+1) at level l + 1 whose parent is that tile; a later call
\* returns the same four tiles and creates none.
C25_GetChildrenLazy ==
    earth.call.op = "getChildren" =>
        LET T == earth.tiles
            p == earth.call.tile
            kids == T[p].children
        IN /\ Len(kids) = 4
           /\ IF Len(earth.call.before) = 0
              THEN earth.call.created = 4
              ELSE earth.call.created = 0 /\ kids = earth.call.before
           /\ \A i \in 1..4 :
                  /\ IsChild(T, kids[i], i, T[p].column, T[p].row)
                  /\ T[kids[i]].level = T[p].level + 1
                  /\ T[kids[i]].parent = {p}

\* C26: in a tree grown from one root by getChildren and traverse, no two
\* tiles have the same column, row and level, every tile but the root has
\* exactly one parent, and every tile has no children or four.
C26_QuadTree ==
    LET T == earth.tiles
    IN /\ Cardinality({<<T[p].column, T[p].row, T[p].level>> : p \in DOMAIN T})
              = Cardinality(DOMAIN T)
       /\ \A p \in DOMAIN T :
              /\ Len(T[p].children) \in {0, 4}
              /\ IF p = RootPath THEN T[p].parent = {}
                 ELSE /\ Cardinality(T[p].parent) = 1
                      /\ \A q \in T[p].parent :
                             /\ q \in DOMAIN T
                             /\ \E i \in DOMAIN T[q].children : T[q].children[i] = p

-----------------------------------------------------------------------------
(* C27: the quadkeys *)

\* C27: for every zoom >= 0 and x, y in [0, 2^zoom), tileXYToQuadKey yields
\* exactly zoom digits, each from '0' to '3', and quadKeyToTileXY of that
\* quadkey returns the same x, y and zoom.
C27_QuadKeyRoundTrip ==
    /\ bing.op # "none" =>
           /\ Len(bing.quadkey) = bing.zoom
           /\ \A i \in DOMAIN bing.quadkey : bing.quadkey[i] \in 0..3
    /\ bing.op = "quadKeyToTileXY" =>
           /\ bing.result.x = bing.x
           /\ bing.result.y = bing.y
           /\ bing.result.zoom = bing.zoom

-----------------------------------------------------------------------------
(* C28: the texture pool *)

\* the texture has the width and the height of the pool
Matching(texture) == gpu.pool /\ gpu.textures[texture].size = gpu.size

\* C28: a texture is in the pool exactly if its width and height are those of
\* the pool; an eviction returns a matching texture to the pool and does not
\* destroy it, and destroys a texture that does not match, which never enters
\* the pool; a fetch for the matching size that finds a texture available in
\* the pool takes it and creates none.
C28_PoolIffMatching ==
    /\ \A texture \in DOMAIN gpu.textures :
           /\ texture \in gpu.used \cup gpu.unused <=> Matching(texture)
           /\ Matching(texture) => ~gpu.textures[texture].destroyed
    /\ gpu.call.op = "remove" =>
           /\ ~gpu.call.threw
           /\ gpu.texture[gpu.call.tile] = NoTexture
           /\ IF Matching(gpu.call.texture)
              THEN gpu.call.texture \in gpu.unused
              ELSE gpu.textures[gpu.call.texture].destroyed
    /\ (gpu.call.op = "fetch" /\ gpu.call.matching /\ gpu.call.available) =>
           /\ ~gpu.call.created
           /\ gpu.call.texture \in gpu.used

-----------------------------------------------------------------------------
(* C29-C30: culled tiles in the drains, and the render queue *)

\* the iterations of the drains of the last update that found their tile
\* culled, or, in the upload stage, without an image
CulledSteps ==
    {i \in DOMAIN log.trace.steps :
        \/ Cull(log.trace.view, log.trace.steps[i].tile)
        \/ /\ log.trace.steps[i].kind = "texture"
           /\ ~log.trace.steps[i].before.image}

\* C29: a tile that a drain dequeues while it is culled does not advance.  In
\* the fetch stage it is reset to READY and nothing else changes: no request
\* is issued and no counter changes.  In the reproject and upload stages, and
\* in the upload stage when it has no image, its image is cleared and it is
\* reset to READY, with no reprojection, no texture acquired and the cache
\* as it was.
C29_CulledDoesNotAdvance ==
    log.op = "update" =>
        \A i \in CulledSteps :
            LET step == log.trace.steps[i]
            IN /\ step.same
               /\ step.after =
                      IF step.kind = "image"
                      THEN [step.before EXCEPT !.state = READY]
                      ELSE [step.before EXCEPT !.state = READY, !.image = FALSE]

\* an update whose reproject drain dequeued a culled tile that held its image
\* and left it in READY without it
C29_Witness ==
    /\ log.op = "update"
    /\ \E i \in CulledSteps :
           /\ log.trace.steps[i].kind = "reproject"
           /\ log.trace.steps[i].before.state = REPROJECTING
           /\ log.trace.steps[i].before.image
           /\ log.trace.steps[i].after.state = READY
           /\ ~log.trace.steps[i].after.image

\* C30: when a render call has returned, the render queue is empty and each
\* tile that was in it has been drawn exactly once; the render queue never
\* holds a tile twice.
C30_RenderDrainsQueue ==
    /\ log.op = "render" =>
           /\ renderQueue = <<>>
           /\ \A i \in DOMAIN log.trace.queued :
                  Cardinality({j \in DOMAIN log.trace.drawn :
                                  log.trace.drawn[j] = log.trace.queued[i]}) = 1
           /\ Len(log.trace.drawn) = Len(log.trace.queued)
    /\ \A i, j \in DOMAIN renderQueue :
           renderQueue[i] = renderQueue[j] => i = j

-----------------------------------------------------------------------------
(* The texture cache under pressure *)

\* C39: a cache miss at capacity completes without raising and leaves the
\* number of resident entries at most the capacity, also when no resident
\* entry can be evicted (each has zoom <= 2 or was touched no earlier than the
\* start of the miss).
C39_MissNeverRaises ==
    [][(/\ log'.op = "find"
        /\ log'.tile \notin Resident
        /\ cacheCount >= cacheLimit)
       => /\ ~log'.threw
          /\ Len(cache') <= cacheLimit]_vars

\* C40: a hit or a miss gives the tile and all its ancestors the time of the
\* call, so no tile was touched later than its parent, and no miss evicts an
\* ancestor of the tile it inserts.
C40_AncestorsTouched ==
    /\ \A t \in DOMAIN tiles \ {Root} :
           tiles[t].lastHit <= tiles[Parent(t)].lastHit
    /\ log.op = "find" =>
           \A u \in SelfAndAncestors(log.tile) : tiles[u].lastHit = now
    /\ \A v \in Evicted : v \notin SelfAndAncestors(log.tile)

\* a miss at capacity for a tile whose parent is resident and was touched
\* before the entry that the miss evicted
C40_Witness ==
    /\ log.op = "find"
    /\ ~log.threw
    /\ \E v \in Evicted :
           /\ Parent(log.tile) \in Resident
           /\ Zoom(Parent(log.tile)) > ProtectedZoom
           /\ tiles[v].lastHit < now
           /\ v \notin Resident

-----------------------------------------------------------------------------
(* The textures behind the cache entries *)

\* the tile textures that were created and not destroyed, those that lie
\* unused in the pool included
LiveTextures == {x \in DOMAIN gpu.textures : ~gpu.textures[x].destroyed}

\* C37: the number of live tile textures, counting those that lie unused in
\* the pool, never exceeds the limit of the cache, whatever the uploads and
\* evictions.
C37_TexturesWithinLimit ==
    Cardinality(LiveTextures) <= cacheLimit

-----------------------------------------------------------------------------
(* The teardown of the tile tree *)

\* the calls of destroy() that texture x has received
DestroysOf(x) == {i \in DOMAIN gpu.destroys : gpu.destroys[i].texture = x}

\* C31: when the tile tree has been torn down, by a provider change or by
\* destroy(), every tile texture has been destroyed exactly once: a texture
\* of the pool's size by the pool and not by the teardown of the tree, any
\* other texture directly, and the teardown has not raised.
C31_DestroyedOnce ==
    gpu.call.op \in {"change", "destroy"} =>
        /\ ~gpu.call.threw
        /\ \A x \in DOMAIN gpu.textures :
               /\ Cardinality(DestroysOf(x)) = 1
               /\ \A i \in DestroysOf(x) :
                      IF gpu.textures[x].size = gpu.size
                      THEN gpu.destroys[i].by = "pool"
                      ELSE gpu.destroys[i].by \in {"tree", "evict"}

-----------------------------------------------------------------------------
(* The tiles that render draws *)

\* C38: every tile that render draws is, when it is drawn, a tile of the
\* current tree in state TEXTURE_LOADED with its texture (and its vertex
\* array) set and not destroyed, whatever updates, renders with show true or
\* false, evictions and provider changes came before.
C38_DrawnTilesLoaded ==
    [][(log'.op = "render" /\ ~log'.skipped)
       => \A i \in DOMAIN renderQueue :
              /\ renderQueue[i][1] = treeGen
              /\ renderQueue[i][2] \in DOMAIN tiles
              /\ tiles[renderQueue[i][2]].state = TEXTURE_LOADED
              /\ tiles[renderQueue[i][2]].texture]_vars

-----------------------------------------------------------------------------
(* Provider changes *)

\* C32: after an update that processed a provider change the image,
\* reproject and texture queues hold tiles of the new tree only, and a
\* callback that completes later for a request issued for a tile of the old
\* tree changes no tile of the new tree and leaves the failure counter and
\* the time of the last failure of the CentralBody as they were.
C32_OldCallbacksIgnored ==
    [][/\ (log'.op = "update" /\ treeGen' # treeGen) =>
              \A i \in DOMAIN StageQueues' : StageQueues'[i] \in DOMAIN tiles'
       /\ log'.op = "orphan" =>
              /\ tiles' = tiles
              /\ tileFailCount' = tileFailCount
              /\ lastFailedTime' = lastFailedTime]_vars

-----------------------------------------------------------------------------
(* The callbacks of a Bing Maps tile load *)

\* the number of times callback name of element e was invoked
Invoked(e, name) ==
    Cardinality({i \in DOMAIN bing.elements[e].calls :
                    bing.elements[e].calls[i] = name})

\* C33: for one tile load of the Bing Maps provider, onload is invoked once
\* if the image has loaded and the metadata response reports valid coverage,
\* whichever of the two arrived first, and is not invoked otherwise: never
\* before both have happened, never twice.
C33_OnLoadIffBoth ==
    \A e \in DOMAIN bing.elements :
        Invoked(e, "onload") =
            IF /\ bing.elements[e].image = "loaded"
               /\ bing.elements[e].metadata = "valid"
            THEN 1 ELSE 0

\* a load whose image arrived before the metadata response that reports valid
\* coverage: onload was invoked by the metadata callback
C33_Witness ==
    \E e \in DOMAIN bing.elements :
        /\ bing.elements[e].events = <<"image", "metadata">>
        /\ bing.elements[e].image = "loaded"
        /\ bing.elements[e].metadata = "valid"
        /\ bing.elements[e].calls = <<"onload">>

\* C36: for each request issued through loadTileImage at most one of onload,
\* onerror and oninvalid is invoked, and at most once, so that a failed
\* attempt counts as one failure.
C36_OneCallbackPerRequest ==
    /\ \A r \in DOMAIN bing.requests : Len(bing.requests[r].calls) <= 1
    /\ bing.failures <= Len(bing.requests)

-----------------------------------------------------------------------------
(* The base tile and the zoom range of the provider *)

\* C34: while the provider has a zoomMin other than 0, the root tile, whose
\* image is the 1 x 1 base image, is never in the render queue.
C34_BaseTileNeverQueued ==
    provider.zoomMin # 0 =>
        \A i \in DOMAIN renderQueue : renderQueue[i][2] # Root

\* C35: every tile that the pipeline hands to loadTileImage has a zoom
\* between zoomMin and zoomMax of the provider, so that loadTileImage does not
\* raise its DeveloperError inside update, and no tile has a zoom above
\* zoomMax.
C35_LoadWithinZoomRange ==
    /\ log.thrower # "image"
    /\ \A t \in DOMAIN tiles :
           /\ tiles[t].pending > 0 => ~LoadThrows(provider, t)
           /\ provider # NoProvider => Zoom(t) <= provider.zoomMax
====
